---- MODULE Spec2Model ----
(***************************************************************************)
(* Model of the vocala spaced-repetition core: the UserWordProgress row    *)
(* and its record_review engine (app/db/models/user_word_progress.py),     *)
(* the progress repository (app/db/repositories) and the SRS service       *)
(* (app/services/srs_service.py) with its word supply                      *)
(* (app/services/word_management_service.py).                              *)
(*                                                                         *)
(* Representation choices                                                  *)
(*   - time is counted in hours since the start of the run; a column that  *)
(*     is NULL holds NoTime;                                               *)
(*   - ease_factor is held in tenths (2.5 is 25): the code's float         *)
(*     arithmetic is modelled as exact decimal arithmetic;                 *)
(*   - accuracy_rate is held as the reduced fraction num/den, or unset;    *)
(*   - average_response_time is held in milliseconds;                      *)
(*   - the words table starts with two verified words; a call of           *)
(*     get_or_generate_words (cache query, generation, usage marks) is     *)
(*     one step; rows with equal sort keys come back in id order;          *)
(*   - the language model is the environment: it fails or answers with a   *)
(*     short list of entries.                                              *)
(***************************************************************************)
EXTENDS Integers, Sequences, FiniteSets, TLC

VARIABLES
    store,      \* the user_word_progress table: a sequence of rows, row i has id i
    words,      \* the words table (the vocabulary cache): a sequence of rows, row i has id i
    now,        \* datetime.utcnow(), in hours
    sess,       \* per database session (one per running handler): its position and locals
    last,       \* the last completed call: its operation, arguments, the row before it, its result
    users,      \* the users table: per user id the columns the daily-vocabulary job reads and writes
    job         \* the periodic daily-vocabulary job: its position and locals

vars == <<store, words, now, sess, last, users, job>>

----------------------------------------------------------------------------
(* Bounds of the model *)

MaxReviews == 8
MaxClock == 4
MaxConcReviews == 2
MaxQuota == 2
MaxOpsReviews == 6
MaxOpsClock == 4
MaxPlanReviews == 1
MaxWordRows == 3
MaxUsage == 2
MaxVocabulary == 2
MaxArgReviews == 2
MaxFrameReviews == 1
MaxStatReviews == 2
MaxLongReviews == 20
MaxWarmup == 3
MaxRunReviews == 30
MaxDueReviews == 5
MaxDueClock == 24
MaxJobClock == 28
MaxRetries == 3
MaxWordCount == 3

(* Program constants *)

NoTime == -1
NoId == 0
NoRating == 0
HoursPerDay == 24
\* the days from the clock's zero to datetime.max (9999-12-31)
DaysToDatetimeMax == 2912136
FailedReviewHours == 4
DailySendHours == 20
DefaultMockWordCount == 5
DecimalBase == 10
MasteredIntervalFactor == 2
DefaultEase == 25
MaxEase == 30
MinEase == 13
EaseBonus == 1
EasePenalty == 2
SecondInterval == 6
MasteryLevel == 5
MasteryStreak == 3
FailedMinReviews == 5
FailedStreak == 3
DemotionStreak == 2
SuccessEaseStreak == 2
FailureEaseStreak == 2

Procs == {"p1", "p2"}
\* Spec: one record, one session at a time
Users == {1}
Words == {1}
\* SpecConc: two sessions, one user, two words, a quota of at most MaxQuota
ConcUsers == {1}
ConcWords == {1, 2}
TickSteps == {FailedReviewHours}
\* (response_time, difficulty) arguments of a review: both omitted, both given
\* the user whose daily sessions are planned, a user who only holds records,
\* and the least daily_word_count a user may have set
PlanUsers == {1}
OtherUsers == {2}
\* the users the daily-vocabulary job looks at
JobUsers == PlanUsers \cup OtherUsers
MinQuota == -1

\* difficulty_level of users and words
DefaultLevel == "B1_B2"

\* what an entry of the language model's answer can be: the text of a seeded
\* verified word, a text not yet in the table, or an entry that cannot be cached
Malformed == "?"
Texts == {"w1", "g1"}
Entries == Texts \cup {Malformed}

\* notes: Optional[str]; the empty string stands for None
Notes == {"n1"}

ReviewExtras == {<<NoTime, NoRating>>, <<2000, 3>>}

\* response_time: Optional[float] and difficulty: Optional[int] as a caller can
\* pass them, a negative time and a rating above the 1-5 scale included
ResponseTimes == {NoTime, 2000, -500}
Difficulties == {NoRating, 3, 6}
\* the 1-5 scale of difficulty_rating
RatingScale == 1..5

Min(a, b) == IF a <= b THEN a ELSE b
Max(a, b) == IF a >= b THEN a ELSE b

RECURSIVE GCD(_, _)
GCD(a, b) == IF b = 0 THEN a ELSE GCD(b, a % b)

----------------------------------------------------------------------------
(* accuracy_rate: Optional[float] *)

NoAccuracy == [set |-> FALSE, num |-> 0, den |-> 1]

\* correct_reviews / total_reviews as a float: equal quotients are the same value
Quotient(c, t) ==
    LET g == GCD(c, t) IN [set |-> TRUE, num |-> c \div g, den |-> t \div g]

\* Python truthiness of an Optional[float]: None and 0.0 are both false
AccuracyTruthy(a) == a.set /\ a.num # 0

\* a >= n/d and a < n/d for a set accuracy
AccuracyGE(a, n, d) == a.num * d >= n * a.den
AccuracyLT(a, n, d) == a.num * d < n * a.den

----------------------------------------------------------------------------
(* The UserWordProgress row *)

\* mutant: a new record is first due a day after its creation
NewProgress_DueTomorrow(id, u, w, t) ==
    [ id |-> id, user_id |-> u, word_id |-> w,
      status |-> "new",
      srs_level |-> 0, srs_interval |-> 1, ease_factor |-> DefaultEase,
      total_reviews |-> 0, correct_reviews |-> 0,
      consecutive_correct |-> 0, consecutive_incorrect |-> 0,
      accuracy_rate |-> NoAccuracy,
      average_response_time |-> NoTime,
      difficulty_rating |-> NoRating,
      first_correct_at |-> NoTime, mastered_at |-> NoTime,
      next_review_at |-> t + HoursPerDay, last_reviewed_at |-> NoTime,
      is_favorite |-> FALSE, is_flagged |-> FALSE, notes |-> "" ]

NewProgress(id, u, w, t) ==
    [ id |-> id, user_id |-> u, word_id |-> w,
      status |-> "new",
      srs_level |-> 0, srs_interval |-> 1, ease_factor |-> DefaultEase,
      total_reviews |-> 0, correct_reviews |-> 0,
      consecutive_correct |-> 0, consecutive_incorrect |-> 0,
      accuracy_rate |-> NoAccuracy,
      average_response_time |-> NoTime,
      difficulty_rating |-> NoRating,
      first_correct_at |-> NoTime, mastered_at |-> NoTime,
      next_review_at |-> t, last_reviewed_at |-> NoTime,
      is_favorite |-> FALSE, is_flagged |-> FALSE, notes |-> "" ]

Fields == DOMAIN NewProgress(1, 1, 1, 0)

NilRow == NewProgress(NoId, NoId, NoId, NoTime)

\* mutant: the quotient is computed and returned but not stored
CalculateAccuracyRate_NotStored(r) == r

CalculateAccuracyRate(r) ==
    IF r.total_reviews = 0 THEN r
    ELSE [r EXCEPT !.accuracy_rate = Quotient(r.correct_reviews, r.total_reviews)]

\* mutant: the ease factor is raised before the interval is multiplied
UpdateSrsSuccess_EaseFirst(r) ==
    LET r0 == IF r.consecutive_correct >= SuccessEaseStreak
                THEN [r EXCEPT !.ease_factor = Min(@ + EaseBonus, MaxEase)]
                ELSE r
    IN  IF r0.srs_level = 0
          THEN [r0 EXCEPT !.srs_level = 1, !.srs_interval = 1]
        ELSE IF r0.srs_level = 1
          THEN [r0 EXCEPT !.srs_level = 2, !.srs_interval = SecondInterval]
        ELSE [r0 EXCEPT !.srs_level = @ + 1,
                        !.srs_interval = (r0.srs_interval * r0.ease_factor) \div 10]

\* mutant: from level 2 on a correct answer raises the level by two
UpdateSrsSuccess_DoubleStep(r) ==
    LET r1 == IF r.srs_level = 0
                 THEN [r EXCEPT !.srs_level = 1, !.srs_interval = 1]
              ELSE IF r.srs_level = 1
                 THEN [r EXCEPT !.srs_level = 2, !.srs_interval = SecondInterval]
              ELSE [r EXCEPT !.srs_level = @ + 2,
                             !.srs_interval = (r.srs_interval * r.ease_factor) \div 10]
    IN  IF r1.consecutive_correct >= SuccessEaseStreak
          THEN [r1 EXCEPT !.ease_factor = Min(@ + EaseBonus, MaxEase)]
          ELSE r1

UpdateSrsSuccess(r) ==
    LET r1 == IF r.srs_level = 0
                 THEN [r EXCEPT !.srs_level = 1, !.srs_interval = 1]
              ELSE IF r.srs_level = 1
                 THEN [r EXCEPT !.srs_level = 2, !.srs_interval = SecondInterval]
              ELSE [r EXCEPT !.srs_level = @ + 1,
                             !.srs_interval = (r.srs_interval * r.ease_factor) \div 10]
    IN  IF r1.consecutive_correct >= SuccessEaseStreak
          THEN [r1 EXCEPT !.ease_factor = Min(@ + EaseBonus, MaxEase)]
          ELSE r1

\* mutant: the level is decremented without the floor at 0
UpdateSrsFailure_NoFloor(r) ==
    LET r1 == [r EXCEPT !.srs_level = @ - 1, !.srs_interval = 1]
    IN  IF r1.consecutive_incorrect >= FailureEaseStreak
          THEN [r1 EXCEPT !.ease_factor = Max(@ - EasePenalty, MinEase)]
          ELSE r1

\* mutant: the interval is left as it was
UpdateSrsFailure_KeepInterval(r) ==
    LET r1 == [r EXCEPT !.srs_level = Max(0, @ - 1)]
    IN  IF r1.consecutive_incorrect >= FailureEaseStreak
          THEN [r1 EXCEPT !.ease_factor = Max(@ - EasePenalty, MinEase)]
          ELSE r1

\* mutant: the ease factor is lowered on the first incorrect answer already
UpdateSrsFailure_EagerPenalty(r) ==
    LET r1 == [r EXCEPT !.srs_level = Max(0, @ - 1), !.srs_interval = 1]
    IN  IF r1.consecutive_incorrect >= 1
          THEN [r1 EXCEPT !.ease_factor = Max(@ - EasePenalty, MinEase)]
          ELSE r1

UpdateSrsFailure(r) ==
    LET r1 == [r EXCEPT !.srs_level = Max(0, @ - 1), !.srs_interval = 1]
    IN  IF r1.consecutive_incorrect >= FailureEaseStreak
          THEN [r1 EXCEPT !.ease_factor = Max(@ - EasePenalty, MinEase)]
          ELSE r1

\* mutant: a new record becomes learning on a correct answer only
UpdateStatus_LearningOnCorrect(r, t) ==
    LET r1 == IF r.status = "new" /\ r.correct_reviews > 0
                 THEN [r EXCEPT !.status = "learning"] ELSE r
    IN  IF /\ AccuracyTruthy(r1.accuracy_rate)
           /\ AccuracyGE(r1.accuracy_rate, 9, 10)
           /\ r1.srs_level >= MasteryLevel
           /\ r1.consecutive_correct >= MasteryStreak
          THEN [r1 EXCEPT !.status = "mastered",
                          !.mastered_at = IF @ = NoTime THEN t ELSE @]
        ELSE IF r1.status = "mastered" /\ r1.consecutive_incorrect >= DemotionStreak
          THEN [r1 EXCEPT !.status = "review"]
        ELSE IF /\ r1.total_reviews >= FailedMinReviews
                /\ AccuracyTruthy(r1.accuracy_rate)
                /\ AccuracyLT(r1.accuracy_rate, 3, 10)
                /\ r1.consecutive_incorrect >= FailedStreak
          THEN [r1 EXCEPT !.status = "failed"]
        ELSE r1

\* mutant: a mastered record is demoted by its first incorrect review
UpdateStatus_EagerDemotion(r, t) ==
    LET r1 == IF r.status = "new" /\ r.total_reviews > 0
                 THEN [r EXCEPT !.status = "learning"] ELSE r
    IN  IF /\ AccuracyTruthy(r1.accuracy_rate)
           /\ AccuracyGE(r1.accuracy_rate, 9, 10)
           /\ r1.srs_level >= MasteryLevel
           /\ r1.consecutive_correct >= MasteryStreak
          THEN [r1 EXCEPT !.status = "mastered",
                          !.mastered_at = IF @ = NoTime THEN t ELSE @]
        ELSE IF r1.status = "mastered" /\ r1.consecutive_incorrect >= 1
          THEN [r1 EXCEPT !.status = "review"]
        ELSE IF /\ r1.total_reviews >= FailedMinReviews
                /\ AccuracyTruthy(r1.accuracy_rate)
                /\ AccuracyLT(r1.accuracy_rate, 3, 10)
                /\ r1.consecutive_incorrect >= FailedStreak
          THEN [r1 EXCEPT !.status = "failed"]
        ELSE r1

\* mutant: mastered_at is stamped every time the mastery test passes
UpdateStatus_RestampMastery(r, t) ==
    LET r1 == IF r.status = "new" /\ r.total_reviews > 0
                 THEN [r EXCEPT !.status = "learning"] ELSE r
    IN  IF /\ AccuracyTruthy(r1.accuracy_rate)
           /\ AccuracyGE(r1.accuracy_rate, 9, 10)
           /\ r1.srs_level >= MasteryLevel
           /\ r1.consecutive_correct >= MasteryStreak
          THEN [r1 EXCEPT !.status = "mastered", !.mastered_at = t]
        ELSE IF r1.status = "mastered" /\ r1.consecutive_incorrect >= DemotionStreak
          THEN [r1 EXCEPT !.status = "review"]
        ELSE IF /\ r1.total_reviews >= FailedMinReviews
                /\ AccuracyTruthy(r1.accuracy_rate)
                /\ AccuracyLT(r1.accuracy_rate, 3, 10)
                /\ r1.consecutive_incorrect >= FailedStreak
          THEN [r1 EXCEPT !.status = "failed"]
        ELSE r1

\* mutant: a failed record returns to learning after two correct answers
UpdateStatus_FailedRecovers(r, t) ==
    LET r1 == IF r.status = "new" /\ r.total_reviews > 0
                 THEN [r EXCEPT !.status = "learning"] ELSE r
    IN  IF /\ AccuracyTruthy(r1.accuracy_rate)
           /\ AccuracyGE(r1.accuracy_rate, 9, 10)
           /\ r1.srs_level >= MasteryLevel
           /\ r1.consecutive_correct >= MasteryStreak
          THEN [r1 EXCEPT !.status = "mastered",
                          !.mastered_at = IF @ = NoTime THEN t ELSE @]
        ELSE IF r1.status = "mastered" /\ r1.consecutive_incorrect >= DemotionStreak
          THEN [r1 EXCEPT !.status = "review"]
        ELSE IF /\ r1.total_reviews >= FailedMinReviews
                /\ AccuracyTruthy(r1.accuracy_rate)
                /\ AccuracyLT(r1.accuracy_rate, 3, 10)
                /\ r1.consecutive_incorrect >= FailedStreak
          THEN [r1 EXCEPT !.status = "failed"]
        ELSE IF r1.status = "failed" /\ r1.consecutive_correct >= SuccessEaseStreak
          THEN [r1 EXCEPT !.status = "learning"]
        ELSE r1

UpdateStatus(r, t) ==
    LET r1 == IF r.status = "new" /\ r.total_reviews > 0
                 THEN [r EXCEPT !.status = "learning"] ELSE r
    IN  IF /\ AccuracyTruthy(r1.accuracy_rate)
           /\ AccuracyGE(r1.accuracy_rate, 9, 10)
           /\ r1.srs_level >= MasteryLevel
           /\ r1.consecutive_correct >= MasteryStreak
          THEN [r1 EXCEPT !.status = "mastered",
                          !.mastered_at = IF @ = NoTime THEN t ELSE @]
        ELSE IF r1.status = "mastered" /\ r1.consecutive_incorrect >= DemotionStreak
          THEN [r1 EXCEPT !.status = "review"]
        ELSE IF /\ r1.total_reviews >= FailedMinReviews
                /\ AccuracyTruthy(r1.accuracy_rate)
                /\ AccuracyLT(r1.accuracy_rate, 3, 10)
                /\ r1.consecutive_incorrect >= FailedStreak
          THEN [r1 EXCEPT !.status = "failed"]
        ELSE r1

\* mutant: a mastered record is scheduled like any other
ScheduleNextReview_NoMasteredBranch(r, t) ==
    IF r.status = "failed"
      THEN [r EXCEPT !.next_review_at = t + FailedReviewHours]
      ELSE [r EXCEPT !.next_review_at = t + HoursPerDay * r.srs_interval]

\* mutant: a failed record is due again at once
ScheduleNextReview_FailedDueNow(r, t) ==
    IF r.status = "mastered"
      THEN [r EXCEPT !.next_review_at = t + HoursPerDay * (r.srs_interval * MasteredIntervalFactor)]
    ELSE IF r.status = "failed"
      THEN [r EXCEPT !.next_review_at = t]
    ELSE [r EXCEPT !.next_review_at = t + HoursPerDay * r.srs_interval]

ScheduleNextReview(r, t) ==
    IF r.status = "mastered"
      THEN [r EXCEPT !.next_review_at = t + HoursPerDay * (r.srs_interval * MasteredIntervalFactor)]
    ELSE IF r.status = "failed"
      THEN [r EXCEPT !.next_review_at = t + FailedReviewHours]
    ELSE [r EXCEPT !.next_review_at = t + HoursPerDay * r.srs_interval]

\* the exponential moving average 0.8 * old + 0.2 * new, in milliseconds
UpdateResponseTime(r, response_time) ==
    IF response_time = NoTime THEN r
    ELSE IF r.average_response_time = NoTime
      THEN [r EXCEPT !.average_response_time = response_time]
    ELSE [r EXCEPT !.average_response_time = (8 * @ + 2 * response_time) \div 10]

UpdateDifficulty(r, difficulty) ==
    IF difficulty = NoRating THEN r ELSE [r EXCEPT !.difficulty_rating = difficulty]

\* mutant: the opposite streak is not cleared
RecordOutcome_KeepsStreaks(r, is_correct, t) ==
    IF is_correct
      THEN UpdateSrsSuccess(
             [r EXCEPT !.correct_reviews = @ + 1,
                       !.consecutive_correct = @ + 1,
                       !.first_correct_at = IF @ = NoTime THEN t ELSE @])
      ELSE UpdateSrsFailure(
             [r EXCEPT !.consecutive_incorrect = @ + 1])

RecordOutcome(r, is_correct, t) ==
    IF is_correct
      THEN UpdateSrsSuccess(
             [r EXCEPT !.correct_reviews = @ + 1,
                       !.consecutive_correct = @ + 1,
                       !.consecutive_incorrect = 0,
                       !.first_correct_at = IF @ = NoTime THEN t ELSE @])
      ELSE UpdateSrsFailure(
             [r EXCEPT !.consecutive_incorrect = @ + 1,
                       !.consecutive_correct = 0])

\* mutant: the next review is scheduled before the status is updated
RecordReview_ScheduleFirst(r, is_correct, response_time, difficulty, t) ==
    LET r1 == [r EXCEPT !.total_reviews = @ + 1, !.last_reviewed_at = t]
        r2 == RecordOutcome(r1, is_correct, t)
        r3 == CalculateAccuracyRate(r2)
        r4 == UpdateResponseTime(r3, response_time)
        r5 == UpdateDifficulty(r4, difficulty)
        r6 == ScheduleNextReview(r5, t)
    IN  UpdateStatus(r6, t)

RecordReview(r, is_correct, response_time, difficulty, t) ==
    LET r1 == [r EXCEPT !.total_reviews = @ + 1, !.last_reviewed_at = t]
        r2 == RecordOutcome(r1, is_correct, t)
        r3 == CalculateAccuracyRate(r2)
        r4 == UpdateResponseTime(r3, response_time)
        r5 == UpdateDifficulty(r4, difficulty)
        r6 == UpdateStatus(r5, t)
    IN  ScheduleNextReview(r6, t)

\* datetime.utcnow() + timedelta(...) raises OverflowError when the sum lies
\* beyond datetime.max; r is the record as scheduled
ScheduleOverflows(r) == r.next_review_at > HoursPerDay * DaysToDatetimeMax

IsDueForReview(r, t) == t >= r.next_review_at

----------------------------------------------------------------------------
(* The repository: queries and writes on the user_word_progress table *)

MatchingIds(s, u, w) == {i \in DOMAIN s : s[i].user_id = u /\ s[i].word_id = w}

\* select ... where user_id = u and word_id = w; scalar_one_or_none()
GetByUserAndWord(s, u, w) ==
    LET m == MatchingIds(s, u, w)
    IN  IF m = {} THEN NoId ELSE CHOOSE i \in m : \A j \in m : i <= j

\* mutant: the index on (user_id, word_id) is not unique
UniqueViolation_NotUnique(s, u, w) == FALSE

\* idx_user_word_unique refuses a second row for the pair
UniqueViolation(s, u, w) == MatchingIds(s, u, w) # {}

\* BaseRepository.create: INSERT with the column defaults, autoincrement id
Create(s, u, w, t) == Append(s, NewProgress(Len(s) + 1, u, w, t))

\* mutant: the commit writes the review counter and leaves the rest for later
Flush_CounterOnly(s, id, loaded, obj) ==
    [s EXCEPT ![id].total_reviews = obj.total_reviews]

\* Session.commit() of a loaded and then mutated object: the UPDATE carries
\* the attributes whose value differs from the one loaded, and only those
Flush(s, id, loaded, obj) ==
    [s EXCEPT ![id] = [f \in Fields |-> IF obj[f] # loaded[f] THEN obj[f] ELSE s[id][f]]]

\* BaseRepository.update_by_id with the values reset_word_progress passes
\* mutant: a reset that also erases the counters and the user's marks
ResetValues_FullErase(r, t) ==
    [r EXCEPT !.status = "new", !.srs_level = 0, !.srs_interval = 1,
              !.ease_factor = DefaultEase,
              !.consecutive_correct = 0, !.consecutive_incorrect = 0,
              !.next_review_at = t,
              !.total_reviews = 0, !.correct_reviews = 0,
              !.is_favorite = FALSE, !.is_flagged = FALSE, !.notes = ""]

\* mutant: a reset that leaves the SRS level and the streaks as they are
ResetValues_KeepsLevel(r, t) ==
    [r EXCEPT !.status = "new", !.srs_interval = 1,
              !.ease_factor = DefaultEase,
              !.next_review_at = t]

ResetValues(r, t) ==
    [r EXCEPT !.status = "new", !.srs_level = 0, !.srs_interval = 1,
              !.ease_factor = DefaultEase,
              !.consecutive_correct = 0, !.consecutive_incorrect = 0,
              !.next_review_at = t]

\* the ids in S ordered by next_review_at (ties by id)
RECURSIVE OrderByNextReview(_, _)
OrderByNextReview(s, S) ==
    IF S = {} THEN <<>>
    ELSE LET i == CHOOSE x \in S : \A y \in S :
                     \/ s[x].next_review_at < s[y].next_review_at
                     \/ s[x].next_review_at = s[y].next_review_at /\ x <= y
         IN  <<i>> \o OrderByNextReview(s, S \ {i})

\* mutant: the query does not filter on the user
GetWordsDueForReview_AnyUser(s, u, t) ==
    OrderByNextReview(s, {i \in DOMAIN s : s[i].next_review_at <= t})

\* mutant: a record is listed only after its time has passed
GetWordsDueForReview_Overdue(s, u, t) ==
    OrderByNextReview(s, {i \in DOMAIN s : s[i].user_id = u /\ s[i].next_review_at < t})

\* select ... where user_id = u and next_review_at <= utcnow() order by next_review_at
GetWordsDueForReview(s, u, t) ==
    OrderByNextReview(s, {i \in DOMAIN s : s[i].user_id = u /\ s[i].next_review_at <= t})

\* SRSService._get_user_learned_word_ids
GetUserLearnedWordIds(s, u) == {s[i].word_id : i \in {j \in DOMAIN s : s[j].user_id = u}}

\* all sequences over S of length at most n
RECURSIVE SeqsUpTo(_, _)
SeqsUpTo(S, n) ==
    IF n = 0 THEN {<<>>}
    ELSE LET shorter == SeqsUpTo(S, n - 1)
         IN  shorter \cup {Append(q, x) : q \in {z \in shorter : Len(z) = n - 1}, x \in S}

----------------------------------------------------------------------------
(* The words table and the word supply *)

NewWord(id, english_word, difficulty_level, is_verified) ==
    [ id |-> id, english_word |-> english_word, difficulty_level |-> difficulty_level,
      is_verified |-> is_verified, usage_count |-> 0 ]

\* the vocabulary the run starts with: two verified words
SeedWords == << NewWord(1, "w1", DefaultLevel, TRUE), NewWord(2, "w2", DefaultLevel, TRUE) >>

\* user.difficulty_level
DifficultyLevel(u) == DefaultLevel

\* the ids in S ordered by usage_count (ties by id)
RECURSIVE OrderByUsage(_, _)
OrderByUsage(ws, S) ==
    IF S = {} THEN <<>>
    ELSE LET i == CHOOSE x \in S : \A y \in S :
                     \/ ws[x].usage_count < ws[y].usage_count
                     \/ ws[x].usage_count = ws[y].usage_count /\ x <= y
         IN  <<i>> \o OrderByUsage(ws, S \ {i})

Take(q, n) == SubSeq(q, 1, Min(n, Len(q)))

\* select ... where difficulty_level = level and is_verified and id not in exclude
\* order by usage_count limit n
GetVerifiedWordsByDifficulty(ws, level, limit, exclude_word_ids) ==
    Take(OrderByUsage(ws, {i \in DOMAIN ws : /\ ws[i].difficulty_level = level
                                             /\ ws[i].is_verified
                                             /\ i \notin exclude_word_ids}),
         limit)

\* the verified rows whose english_word is the given text
GetWordByTextIfVerified(ws, english_word) ==
    {i \in DOMAIN ws : ws[i].english_word = english_word /\ ws[i].is_verified}

IncrementWordUsage(ws, id) == [ws EXCEPT ![id].usage_count = @ + 1]

\* for word in ...: await self.word_repo.increment_word_usage(word.id)
RECURSIVE MarkUsed(_, _)
MarkUsed(ws, ids) ==
    IF ids = <<>> THEN ws ELSE MarkUsed(IncrementWordUsage(ws, Head(ids)), Tail(ids))

\* what the language model answers: a failure, or a list of entries
LlmFailure == [ raises |-> TRUE, data |-> <<>> ]
LlmResponse(data) == [ raises |-> FALSE, data |-> data ]

\* the loop of _generate_and_cache_words over the entries: an entry whose text
\* is that of one verified row yields that row, an entry that cannot be cached
\* is skipped, any other entry becomes a new unverified row
RECURSIVE CacheWords(_, _, _, _)
CacheWords(ws, data, level, cached_words) ==
    IF data = <<>> THEN [ words |-> ws, cached_words |-> cached_words ]
    ELSE LET existing == GetWordByTextIfVerified(ws, Head(data))
         IN  IF Head(data) = Malformed \/ Cardinality(existing) > 1
               THEN CacheWords(ws, Tail(data), level, cached_words)
             ELSE IF existing # {}
               THEN CacheWords(ws, Tail(data), level,
                               Append(cached_words, CHOOSE i \in existing : TRUE))
             ELSE CacheWords(Append(ws, NewWord(Len(ws) + 1, Head(data), level, FALSE)),
                             Tail(data), level, Append(cached_words, Len(ws) + 1))

GenerateAndCacheWords(ws, vocabulary_data, level) ==
    CacheWords(ws, vocabulary_data, level, <<>>)

\* mutant: everything cached and generated is returned
GetOrGenerateWords_NoTruncation(ws, level, word_count, exclude_word_ids, llm) ==
    LET cached_words == GetVerifiedWordsByDifficulty(ws, level, word_count, exclude_word_ids)
    IN  IF Len(cached_words) >= word_count
          THEN [ words |-> MarkUsed(ws, Take(cached_words, word_count)),
                 result |-> Take(cached_words, word_count), raised |-> "" ]
        ELSE IF llm.raises
          THEN [ words |-> ws, result |-> cached_words, raised |-> "" ]
        ELSE LET generated == GenerateAndCacheWords(ws, llm.data, level)
                 all_words == cached_words \o generated.cached_words
             IN  [ words |-> MarkUsed(generated.words, all_words),
                   result |-> all_words, raised |-> "" ]

\* mutant: a failure of the language model is not caught
GetOrGenerateWords_Unguarded(ws, level, word_count, exclude_word_ids, llm) ==
    LET cached_words == GetVerifiedWordsByDifficulty(ws, level, word_count, exclude_word_ids)
    IN  IF Len(cached_words) >= word_count
          THEN [ words |-> MarkUsed(ws, Take(cached_words, word_count)),
                 result |-> Take(cached_words, word_count), raised |-> "" ]
        ELSE IF llm.raises
          THEN [ words |-> ws, result |-> <<>>, raised |-> "RuntimeError" ]
        ELSE LET generated == GenerateAndCacheWords(ws, llm.data, level)
                 all_words == cached_words \o generated.cached_words
             IN  [ words |-> MarkUsed(generated.words, all_words),
                   result |-> Take(all_words, word_count), raised |-> "" ]

\* WordManagementService.get_or_generate_words: the words table after the call,
\* the ids of the words it returns, and the exception it raises if any (the
\* try/except around the generation leaves none)
GetOrGenerateWords(ws, level, word_count, exclude_word_ids, llm) ==
    LET cached_words == GetVerifiedWordsByDifficulty(ws, level, word_count, exclude_word_ids)
    IN  IF Len(cached_words) >= word_count
          THEN [ words |-> MarkUsed(ws, Take(cached_words, word_count)),
                 result |-> Take(cached_words, word_count), raised |-> "" ]
        ELSE IF llm.raises
          THEN [ words |-> ws, result |-> cached_words, raised |-> "" ]
        ELSE LET generated == GenerateAndCacheWords(ws, llm.data, level)
                 all_words == cached_words \o generated.cached_words
             IN  [ words |-> MarkUsed(generated.words, all_words),
                   result |-> Take(all_words, word_count), raised |-> "" ]

\* the answers of the language model: every failure and every short list of entries
LlmAnswers == {LlmFailure} \cup {LlmResponse(d) : d \in SeqsUpTo(Entries, MaxVocabulary)}

\* the language model is down
LlmDown == {LlmFailure}

----------------------------------------------------------------------------
(* Sessions: one per running call; a call suspends at each await *)

\* no statistics computed
NoStatistics == <<>>

IdleSession ==
    [ pc |-> "idle", op |-> "", user |-> NoId, word |-> NoId, is_correct |-> FALSE,
      id |-> NoId, at |-> NoTime, loaded |-> NilRow, obj |-> NilRow,
      quota |-> 0, reviews |-> <<>>, learned |-> {}, requested |-> 0,
      new_words |-> <<>>, todo |-> <<>>, err |-> "",
      flag |-> FALSE, note |-> "",
      supplied |-> FALSE, rows_before |-> 0, planned_at |-> NoTime,
      response_time |-> NoTime, difficulty |-> NoRating,
      all_progress |-> <<>>, stats |-> NoStatistics,
      provider |-> "", max_retries |-> 0, attempt |-> 0, outcomes |-> <<>>,
      prompt |-> <<>>, word_count |-> 0, difficulty_reference |-> <<>> ]

\* result = {"review_words": [], "new_words": [], "total_count": 0}
EmptyResult == [ review_words |-> <<>>, new_words |-> <<>>, total_count |-> 0 ]

NoCall ==
    [ op |-> "none", proc |-> "", user |-> NoId, word |-> NoId, is_correct |-> FALSE,
      id |-> NoId, at |-> NoTime, pre |-> NilRow, cur |-> NilRow, rows |-> 0,
      raced |-> FALSE, quota |-> 0, reviews |-> <<>>, requested |-> 0,
      new_words |-> <<>>, err |-> "",
      supplied |-> FALSE, rows_before |-> 0, planned_at |-> NoTime,
      result |-> EmptyResult , stats |-> NoStatistics,
      last_daily_words_sent |-> NoTime,
      provider |-> "", max_retries |-> 0, outcomes |-> <<>>, word_count |-> 0,
      difficulty_reference |-> <<>>, response |-> <<>>, raised |-> "",
      vocabulary |-> <<>> ]

\* the record of session p's call, as it completes
Completed(p, op, err) ==
    [ NoCall EXCEPT !.op = op, !.proc = p, !.user = sess[p].user, !.word = sess[p].word,
                    !.is_correct = sess[p].is_correct, !.id = sess[p].id,
                    !.at = sess[p].at, !.pre = sess[p].loaded,
                    !.cur = IF sess[p].id = NoId THEN NilRow ELSE store[sess[p].id],
                    !.rows = Len(store), !.quota = sess[p].quota,
                    !.reviews = sess[p].reviews, !.requested = sess[p].requested,
                    !.new_words = sess[p].new_words, !.err = err,
                    !.supplied = sess[p].supplied,
                    !.rows_before = sess[p].rows_before,
                    !.planned_at = sess[p].planned_at ]

(* The users table and the daily-vocabulary job *)

\* a users row: daily_word_count, notifications_enabled, last_daily_words_sent = None
NewUser(daily_word_count, notifications_enabled) ==
    [ daily_word_count |-> daily_word_count,
      notifications_enabled |-> notifications_enabled,
      last_daily_words_sent |-> NoTime ]

\* the job between two runs
IdleJob ==
    [ pc |-> "idle", todo |-> <<>>, user |-> NoId, loaded |-> <<>>,
      success_count |-> 0, error_count |-> 0 ]

Init ==
    /\ store = <<>>
    /\ words = SeedWords
    /\ now = 0
    /\ sess = [p \in Procs |-> IdleSession]
    /\ last = NoCall
    /\ users = [u \in JobUsers |-> NewUser(MaxQuota, TRUE)]
    /\ job = IdleJob

(* UserWordProgressRepository.create_or_get_progress *)

\* where session p goes after its create_or_get call: back to the caller
\* (assign_words_to_user's loop) or to idle
AfterCreateOrGet(s1, err) ==
    IF s1.op = "plan"
      THEN IF err # ""
             THEN [s1 EXCEPT !.pc = "plan_return", !.err = err]
           ELSE IF Len(s1.todo) > 1
             THEN [s1 EXCEPT !.pc = "assign_lookup", !.todo = Tail(@)]
           ELSE [s1 EXCEPT !.pc = "plan_return", !.todo = <<>>]
      ELSE IdleSession

CreateOrGetFound(p, s1) ==
    [ NoCall EXCEPT !.op = "create_or_get", !.proc = p, !.user = s1.user, !.word = s1.word,
                    !.id = s1.id, !.at = now, !.pre = s1.loaded, !.cur = s1.loaded,
                    !.rows = Len(store) ]

CreateOrGetLookupStep(p, s0, u, w) ==
    LET id == GetByUserAndWord(store, u, w)
        s1 == [s0 EXCEPT !.user = u, !.word = w, !.id = id, !.at = now,
                         !.loaded = IF id = NoId THEN NilRow ELSE store[id]]
    IN  /\ IF id = NoId
             THEN /\ sess' = [sess EXCEPT ![p] = [s1 EXCEPT !.pc = "create_insert"]]
                  /\ UNCHANGED last
             ELSE /\ sess' = [sess EXCEPT ![p] = AfterCreateOrGet(s1, "")]
                  /\ last' = CreateOrGetFound(p, s1)
        /\ UNCHANGED <<store, words, now, users, job>>

\* a create_or_get call of its own
CreateOrGetLookup(p, u, w) ==
    /\ sess[p].pc = "idle"
    /\ CreateOrGetLookupStep(p, [IdleSession EXCEPT !.op = "create_or_get"], u, w)

\* progress = await self.create(user_id=user_id, word_id=word_id): add, commit, refresh
CreateOrGetInsert(p) ==
    /\ sess[p].pc = "create_insert"
    /\ LET raced == UniqueViolation(store, sess[p].user, sess[p].word)
       IN  IF raced
             THEN /\ store' = store
                  /\ last' = [Completed(p, "create_or_get", "IntegrityError")
                                EXCEPT !.raced = TRUE]
                  /\ sess' = [sess EXCEPT ![p] = AfterCreateOrGet(sess[p], "IntegrityError")]
             ELSE /\ store' = Create(store, sess[p].user, sess[p].word, now)
                  /\ last' = [Completed(p, "create_or_get", "")
                                EXCEPT !.id = Len(store) + 1, !.at = now]
                  /\ sess' = [sess EXCEPT ![p] = AfterCreateOrGet(sess[p], "")]
    /\ UNCHANGED <<words, now, users, job>>

(* SRSService.record_word_review *)

\* record_review raised while scheduling: the exception leaves
\* record_word_review and nothing is committed
ReviewRaised(p, u, w, is_correct, id) ==
    [ NoCall EXCEPT !.op = "record_review", !.proc = p, !.user = u, !.word = w,
                    !.is_correct = is_correct, !.id = id, !.at = now,
                    !.pre = store[id], !.cur = store[id], !.rows = Len(store),
                    !.err = "OverflowError" ]

\* progress = await get_by_user_and_word(...); progress.record_review(...)
\* mutant: a review of a pair without a record creates the record
RecordWordReviewLoad_CreatesMissing(p, u, w, is_correct, response_time, difficulty, maxReviews) ==
    /\ sess[p].pc = "idle"
    /\ LET id == GetByUserAndWord(store, u, w)
       IN  IF id = NoId
             THEN /\ sess' = [sess EXCEPT ![p] = IdleSession]
                  /\ store' = Create(store, u, w, now)
                  /\ last' = [NoCall EXCEPT !.op = "record_review", !.proc = p, !.user = u,
                                            !.word = w, !.is_correct = is_correct,
                                            !.at = now, !.rows = Len(store)]
             ELSE /\ store[id].total_reviews < maxReviews
                  /\ LET obj == RecordReview(store[id], is_correct, response_time,
                                             difficulty, now)
                     IN  IF ScheduleOverflows(obj)
                           THEN /\ sess' = [sess EXCEPT ![p] = IdleSession]
                                /\ last' = ReviewRaised(p, u, w, is_correct, id)
                           ELSE /\ sess' = [sess EXCEPT ![p] =
                                      [IdleSession EXCEPT
                                         !.pc = "review_commit", !.op = "record_review",
                                         !.user = u, !.word = w, !.is_correct = is_correct,
                                         !.id = id, !.at = now, !.loaded = store[id],
                                         !.response_time = response_time,
                                         !.difficulty = difficulty, !.obj = obj]]
                                /\ UNCHANGED last
                  /\ UNCHANGED store
    /\ UNCHANGED <<words, now, users, job>>

RecordWordReviewLoad(p, u, w, is_correct, response_time, difficulty, maxReviews) ==
    /\ sess[p].pc = "idle"
    /\ LET id == GetByUserAndWord(store, u, w)
       IN  IF id = NoId
             THEN /\ sess' = [sess EXCEPT ![p] = IdleSession]
                  /\ last' = [NoCall EXCEPT !.op = "record_review", !.proc = p, !.user = u,
                                            !.word = w, !.is_correct = is_correct,
                                            !.at = now, !.rows = Len(store)]
             ELSE /\ store[id].total_reviews < maxReviews
                  /\ LET obj == RecordReview(store[id], is_correct, response_time,
                                             difficulty, now)
                     IN  IF ScheduleOverflows(obj)
                           THEN /\ sess' = [sess EXCEPT ![p] = IdleSession]
                                /\ last' = ReviewRaised(p, u, w, is_correct, id)
                           ELSE /\ sess' = [sess EXCEPT ![p] =
                                      [IdleSession EXCEPT
                                         !.pc = "review_commit", !.op = "record_review",
                                         !.user = u, !.word = w, !.is_correct = is_correct,
                                         !.id = id, !.at = now, !.loaded = store[id],
                                         !.response_time = response_time,
                                         !.difficulty = difficulty, !.obj = obj]]
                                /\ UNCHANGED last
    /\ UNCHANGED <<store, words, now, users, job>>

\* await self.db.commit()
RecordWordReviewCommit(p) ==
    /\ sess[p].pc = "review_commit"
    /\ store' = Flush(store, sess[p].id, sess[p].loaded, sess[p].obj)
    /\ last' = Completed(p, "record_review", "")
    /\ sess' = [sess EXCEPT ![p] = IdleSession]
    /\ UNCHANGED <<words, now, users, job>>

(* SRSService.reset_word_progress *)

\* progress = await self.progress_repo.get_by_user_and_word(user_id, word_id)
ResetWordProgressLookup(p, u, w) ==
    /\ sess[p].pc = "idle"
    /\ LET id == GetByUserAndWord(store, u, w)
       IN  IF id = NoId
             THEN /\ sess' = [sess EXCEPT ![p] = IdleSession]
                  /\ last' = [NoCall EXCEPT !.op = "reset", !.proc = p, !.user = u,
                                            !.word = w, !.at = now, !.rows = Len(store)]
             ELSE /\ sess' = [sess EXCEPT ![p] =
                        [IdleSession EXCEPT !.pc = "reset_update", !.op = "reset",
                                            !.user = u, !.word = w,
                                            !.id = id, !.at = now, !.loaded = store[id]]]
                  /\ UNCHANGED last
    /\ UNCHANGED <<store, words, now, users, job>>

\* await self.progress_repo.update_by_id(progress.id, status="new", ...)
ResetWordProgressUpdate(p) ==
    /\ sess[p].pc = "reset_update"
    /\ store' = [store EXCEPT ![sess[p].id] = ResetValues(@, sess[p].at)]
    /\ last' = [Completed(p, "reset", "") EXCEPT !.pre = store[sess[p].id]]
    /\ sess' = [sess EXCEPT ![p] = IdleSession]
    /\ UNCHANGED <<words, now, users, job>>

(* SRSService.flag_difficult_word, mark_word_as_favorite and               *)
(* add_user_note_to_word: a lookup, then update_by_id on one column        *)

\* progress = await self.progress_repo.get_by_user_and_word(user_id, word_id)
LookupForUpdate(p, op, pc, u, w, flag, note) ==
    /\ sess[p].pc = "idle"
    /\ LET id == GetByUserAndWord(store, u, w)
       IN  IF id = NoId
             THEN /\ sess' = [sess EXCEPT ![p] = IdleSession]
                  /\ last' = [NoCall EXCEPT !.op = op, !.proc = p, !.user = u,
                                            !.word = w, !.at = now, !.rows = Len(store)]
             ELSE /\ sess' = [sess EXCEPT ![p] =
                        [IdleSession EXCEPT !.pc = pc, !.op = op,
                                            !.user = u, !.word = w,
                                            !.id = id, !.at = now, !.loaded = store[id],
                                            !.flag = flag, !.note = note]]
                  /\ UNCHANGED last
    /\ UNCHANGED <<store, words, now, users, job>>

\* mutant: the update has no where clause
UpdateById_EveryRow(p, row) ==
    /\ store' = [i \in DOMAIN store |-> row]
    /\ last' = [Completed(p, sess[p].op, "") EXCEPT !.pre = store[sess[p].id]]
    /\ sess' = [sess EXCEPT ![p] = IdleSession]
    /\ UNCHANGED <<words, now, users, job>>

\* the row after update(...).where(id == id).values(...) and the commit
UpdateById(p, row) ==
    /\ store' = [store EXCEPT ![sess[p].id] = row]
    /\ last' = [Completed(p, sess[p].op, "") EXCEPT !.pre = store[sess[p].id]]
    /\ sess' = [sess EXCEPT ![p] = IdleSession]
    /\ UNCHANGED <<words, now, users, job>>

FlagDifficultWordLookup(p, u, w, is_flagged) ==
    LookupForUpdate(p, "flag", "flag_update", u, w, is_flagged, "")

FlagDifficultWordUpdate(p) ==
    /\ sess[p].pc = "flag_update"
    /\ UpdateById(p, [store[sess[p].id] EXCEPT !.is_flagged = sess[p].flag])

MarkWordAsFavoriteLookup(p, u, w, is_favorite) ==
    LookupForUpdate(p, "favorite", "favorite_update", u, w, is_favorite, "")

MarkWordAsFavoriteUpdate(p) ==
    /\ sess[p].pc = "favorite_update"
    /\ UpdateById(p, [store[sess[p].id] EXCEPT !.is_favorite = sess[p].flag])

AddUserNoteToWordLookup(p, u, w, note) ==
    LookupForUpdate(p, "note", "note_update", u, w, FALSE, note)

\* mutant: a note also marks the record as due now
AddUserNoteToWordUpdate_Reschedules(p) ==
    /\ sess[p].pc = "note_update"
    /\ UpdateById(p, [store[sess[p].id] EXCEPT !.notes = sess[p].note,
                                               !.next_review_at = sess[p].at])

AddUserNoteToWordUpdate(p) ==
    /\ sess[p].pc = "note_update"
    /\ UpdateById(p, [store[sess[p].id] EXCEPT !.notes = sess[p].note])

(* SRSService.get_daily_learning_words *)

\* mutant: due reviews beyond the quota are dropped
PlanDue_ReviewsWithinQuota(p, u, quota) ==
    /\ sess[p].pc = "idle"
    /\ LET due == GetWordsDueForReview(store, u, now)
           reviews == SubSeq(due, 1, Min(Max(0, quota), Len(due)))
           remaining_slots == Max(0, quota - Len(reviews))
       IN  sess' = [sess EXCEPT ![p] =
              [IdleSession EXCEPT !.pc = IF remaining_slots > 0 THEN "plan_learned"
                                                                 ELSE "plan_return",
                                  !.op = "plan", !.user = u, !.at = now, !.quota = quota,
                                  !.reviews = reviews, !.requested = remaining_slots,
                                  !.rows_before = Len(store), !.planned_at = now]]
    /\ UNCHANGED <<store, words, now, last, users, job>>

\* review_progress = await self.get_words_due_for_review(user.id);
\* remaining_slots = max(0, user.daily_word_count - review_count)
PlanDue(p, u, quota) ==
    /\ sess[p].pc = "idle"
    /\ LET reviews == GetWordsDueForReview(store, u, now)
           remaining_slots == Max(0, quota - Len(reviews))
       IN  sess' = [sess EXCEPT ![p] =
              [IdleSession EXCEPT !.pc = IF remaining_slots > 0 THEN "plan_learned"
                                                                 ELSE "plan_return",
                                  !.op = "plan", !.user = u, !.at = now, !.quota = quota,
                                  !.reviews = reviews, !.requested = remaining_slots,
                                  !.rows_before = Len(store), !.planned_at = now]]
    /\ UNCHANGED <<store, words, now, last, users, job>>

\* learned_word_ids = await self._get_user_learned_word_ids(user.id)
PlanLearned(p) ==
    /\ sess[p].pc = "plan_learned"
    /\ sess' = [sess EXCEPT ![p] = [@ EXCEPT !.pc = "plan_supply",
                                             !.learned = GetUserLearnedWordIds(store, sess[p].user)]]
    /\ UNCHANGED <<store, words, now, last, users, job>>

\* new_words = await self.word_service.get_or_generate_words(...);
\* if new_words: await self.assign_words_to_user(user, new_words)
PlanSupply(p, answers) ==
    /\ sess[p].pc = "plan_supply"
    /\ \E llm \in answers :
          LET supply == GetOrGenerateWords(words, DifficultyLevel(sess[p].user),
                                           sess[p].requested, sess[p].learned, llm)
          IN  /\ Len(supply.words) <= MaxWordRows
              /\ \A i \in DOMAIN supply.words : supply.words[i].usage_count <= MaxUsage
              /\ words' = supply.words
              /\ sess' = [sess EXCEPT ![p] =
                    [@ EXCEPT !.pc = IF supply.result = <<>> \/ supply.raised # ""
                                       THEN "plan_return" ELSE "assign_lookup",
                              !.supplied = TRUE, !.err = supply.raised,
                              !.new_words = supply.result, !.todo = supply.result]]
    /\ UNCHANGED <<store, now, last, users, job>>

\* assign_words_to_user: create_or_get_progress(user.id, word.id) for the next word
AssignLookup(p) ==
    /\ sess[p].pc = "assign_lookup"
    /\ CreateOrGetLookupStep(p, sess[p], sess[p].user, Head(sess[p].todo))

\* result["review_words"], result["new_words"], result["total_count"]
PlanResult(reviews, new_words) ==
    [ review_words |-> reviews, new_words |-> new_words,
      total_count |-> Len(reviews) + Len(new_words) ]

\* what get_daily_learning_words returns to a user with the given
\* daily_word_count when it runs alone on the tables s and ws at time t
GetDailyLearningWords(s, ws, u, quota, t, llm) ==
    LET reviews == GetWordsDueForReview(s, u, t)
        remaining_slots == Max(0, quota - Len(reviews))
        new_words == IF remaining_slots > 0
                       THEN GetOrGenerateWords(ws, DifficultyLevel(u), remaining_slots,
                                               GetUserLearnedWordIds(s, u), llm).result
                       ELSE <<>>
    IN  PlanResult(reviews, new_words)

\* result["total_count"] = ...; return result (or the exception of the call leaves it)
PlanReturn(p) ==
    /\ sess[p].pc = "plan_return"
    /\ last' = [Completed(p, "plan", sess[p].err)
                  EXCEPT !.id = NoId, !.word = NoId, !.pre = NilRow, !.cur = NilRow,
                         !.result = IF sess[p].err = ""
                                      THEN PlanResult(sess[p].reviews, sess[p].new_words)
                                      ELSE EmptyResult]
    /\ sess' = [sess EXCEPT ![p] = IdleSession]
    /\ UNCHANGED <<store, words, now, users, job>>

(* SRSService.get_user_learning_statistics *)

\* d.get(k, default) of a dict
Get(d, k, default) == IF k \in DOMAIN d THEN d[k] ELSE default

\* d[k] = v of a dict
Put(d, k, v) == [x \in DOMAIN d \cup {k} |-> IF x = k THEN v ELSE d[x]]

\* the loop over all_progress: status_counts, total_reviews, total_correct
RECURSIVE Tally(_, _)
Tally(all_progress, acc) ==
    IF all_progress = <<>> THEN acc
    ELSE LET progress == Head(all_progress)
         IN  Tally(Tail(all_progress),
                   [ status_counts |-> Put(acc.status_counts, progress.status,
                                           Get(acc.status_counts, progress.status, 0) + 1),
                     total_reviews |-> acc.total_reviews + progress.total_reviews,
                     total_correct |-> acc.total_correct + progress.correct_reviews ])

\* mutant: the all-time accuracy is the mean of the records' accuracy, here
\* the accuracy of the first record
Statistics_FirstRecordAccuracy(all_progress, due_count) ==
    LET t == Tally(all_progress, [status_counts |-> <<>>, total_reviews |-> 0,
                                  total_correct |-> 0])
    IN  [ total_words |-> Len(all_progress),
          status_breakdown |-> t.status_counts,
          total_reviews |-> t.total_reviews,
          total_correct |-> t.total_correct,
          overall_accuracy |-> IF all_progress # <<>> /\ Head(all_progress).total_reviews > 0
                                 THEN Quotient(Head(all_progress).correct_reviews,
                                               Head(all_progress).total_reviews)
                                 ELSE Quotient(0, 1),
          words_due_for_review |-> due_count,
          new_words |-> Get(t.status_counts, "new", 0),
          learning_words |-> Get(t.status_counts, "learning", 0),
          mastered_words |-> Get(t.status_counts, "mastered", 0),
          failed_words |-> Get(t.status_counts, "failed", 0) ]

\* the dict the call returns
Statistics(all_progress, due_count) ==
    LET t == Tally(all_progress, [status_counts |-> <<>>, total_reviews |-> 0,
                                  total_correct |-> 0])
    IN  [ total_words |-> Len(all_progress),
          status_breakdown |-> t.status_counts,
          total_reviews |-> t.total_reviews,
          total_correct |-> t.total_correct,
          overall_accuracy |-> IF t.total_reviews > 0
                                 THEN Quotient(t.total_correct, t.total_reviews)
                                 ELSE Quotient(0, 1),
          words_due_for_review |-> due_count,
          new_words |-> Get(t.status_counts, "new", 0),
          learning_words |-> Get(t.status_counts, "learning", 0),
          mastered_words |-> Get(t.status_counts, "mastered", 0),
          failed_words |-> Get(t.status_counts, "failed", 0) ]

\* select ... where user_id = u, in id order
RECURSIVE GetByFilter(_, _)
GetByFilter(s, u) ==
    IF s = <<>> THEN <<>>
    ELSE IF Head(s).user_id = u THEN <<Head(s)>> \o GetByFilter(Tail(s), u)
    ELSE GetByFilter(Tail(s), u)

\* all_progress = await self.progress_repo.get_by_filter(user_id=user_id)
StatisticsLoad(p, u) ==
    /\ sess[p].pc = "idle"
    /\ sess' = [sess EXCEPT ![p] =
          [IdleSession EXCEPT !.pc = "statistics_due", !.op = "statistics", !.user = u,
                              !.at = now, !.all_progress = GetByFilter(store, u)]]
    /\ UNCHANGED <<store, words, now, last, users, job>>

\* due_count = len(await self.get_words_due_for_review(user_id)); return {...}
StatisticsReturn(p) ==
    /\ sess[p].pc = "statistics_due"
    /\ last' = [Completed(p, "statistics", "")
                  EXCEPT !.stats = Statistics(sess[p].all_progress,
                                              Len(GetWordsDueForReview(store, sess[p].user, now)))]
    /\ sess' = [sess EXCEPT ![p] = IdleSession]
    /\ UNCHANGED <<store, words, now, users, job>>

(* Cancellation *)

\* the task running the call is cancelled at an await: the session is closed
\* and what it had not committed is discarded
Cancel(p) ==
    /\ sess[p].pc # "idle"
    /\ last' = Completed(p, sess[p].op, "CancelledError")
    /\ sess' = [sess EXCEPT ![p] = IdleSession]
    /\ UNCHANGED <<store, words, now, users, job>>

(* The clock *)

Tick(maxClock) ==
    /\ \E d \in TickSteps : now + d <= maxClock /\ now' = now + d
    /\ UNCHANGED <<store, words, sess, last, users, job>>

(* llm_interface/llm_service.py: LLMService *)

\* Texts are sequences of pieces; a number appears in a text as its decimal digits
Digits == <<"0", "1", "2", "3", "4", "5", "6", "7", "8", "9">>

\* f"{n}" of an integer n >= 0
RECURSIVE Str(_)
Str(n) ==
    IF n < DecimalBase THEN <<Digits[n + 1]>>
    ELSE Str(n \div DecimalBase) \o <<Digits[(n % DecimalBase) + 1]>>

IsDigit(c) == \E d \in DOMAIN Digits : Digits[d] = c

\* int(text) of a non-empty sequence of digits
RECURSIVE ParseInt(_)
ParseInt(text) ==
    IF text = <<>> THEN 0
    ELSE DecimalBase * ParseInt(SubSeq(text, 1, Len(text) - 1))
           + (CHOOSE d \in DOMAIN Digits : Digits[d] = text[Len(text)]) - 1

\* the least position of piece c in text, 0 if there is none
Find(text, c) ==
    IF \E i \in DOMAIN text : text[i] = c
      THEN CHOOSE i \in DOMAIN text : text[i] = c /\ \A j \in 1..(i - 1) : text[j] # c
      ELSE 0

\* the difficulty references a caller passes, and the settings of the service
DifficultyReferences == { <<"Oxford3000_", DefaultLevel>>, <<"A1_A2">> }
Providers == {"openai", "google", "mock"}

\* difficulty_reference.replace("Oxford3000_", "")
ReplaceOxford(difficulty_reference) ==
    SelectSeq(difficulty_reference, LAMBDA c : c # "Oxford3000_")

\* _build_vocabulary_prompt: the pieces of the prompt that depend on the arguments,
\* in the order of the text
BuildVocabularyPrompt(profile_level, word_count, difficulty_reference) ==
    LET difficulty_level == ReplaceOxford(difficulty_reference)
    IN  <<"Generate">> \o Str(word_count) \o <<"English vocabulary", "words", "level">>
          \o difficulty_level \o <<"Difficulty Level:">> \o profile_level
          \o <<"Generate exactly">> \o Str(word_count) \o <<"words", "Focus on">>

\* mock_words of _call_mock: two entries with two examples each
MockWords ==
    << [ english_word |-> <<"journey">>, turkish_translation |-> "yolculuk",
         part_of_speech |-> "noun",
         examples |-> <<"The journey took three hours.", "Life is a long journey.">> ],
       [ english_word |-> <<"comfortable">>, turkish_translation |-> "rahat",
         part_of_speech |-> "adjective",
         examples |-> <<"This chair is very comfortable.",
                        "I feel comfortable in this room.">> ] >>

\* json.dumps of a list, and the other answers a provider can give
JsonArray(items) == [ kind |-> "array", items |-> items ]
NotJson == [ kind |-> "text", items |-> <<>> ]
NoResponse == [ kind |-> "none", items |-> <<>> ]

\* the i-th (from 0) entry of the mock's result
MockWord(i) ==
    LET word == MockWords[(i % Len(MockWords)) + 1]
    IN  IF i >= Len(MockWords)
          THEN [word EXCEPT !.english_word = @ \o <<"_">> \o Str(i)]
          ELSE word

\* int(prompt.split("Generate exactly")[1].split("words")[0].strip()), 5 if
\* that fails
MockWordCount(prompt) ==
    LET at == Find(prompt, "Generate exactly")
        rest == SubSeq(prompt, at + 1, Len(prompt))
        next == Find(rest, "Generate exactly")
        part == IF next = 0 THEN rest ELSE SubSeq(rest, 1, next - 1)
        stop == Find(part, "words")
        text == IF stop = 0 THEN part ELSE SubSeq(part, 1, stop - 1)
    IN  IF at = 0 THEN DefaultMockWordCount
        ELSE IF text # <<>> /\ \A i \in DOMAIN text : IsDigit(text[i])
               THEN ParseInt(text) ELSE DefaultMockWordCount

\* mutant: the mock answers with its two words whatever was asked for
CallMock_TwoWords(prompt) ==
    JsonArray([k \in 1..Min(MockWordCount(prompt), Len(MockWords)) |-> MockWord(k - 1)])

\* _call_mock
CallMock(prompt) ==
    JsonArray([k \in 1..MockWordCount(prompt) |-> MockWord(k - 1)])

\* _parse_vocabulary_response: [items, raised]
ParseVocabularyResponse(response) ==
    CASE response.kind \in {"array", "words_object", "wrapped"} ->
             [ items |-> response.items, raised |-> "" ]
      [] response.kind = "none" -> [ items |-> <<>>, raised |-> "TypeError" ]
      [] OTHER -> [ items |-> <<>>, raised |-> "ValueError" ]

\* _get_model_name
GetModelName(provider) ==
    IF provider \in {"openai", "google"} THEN <<provider, "model">> ELSE <<"mock">>

\* _hash_text
HashText(text) == [ sha256 |-> text ]

\* word_data.update({...}) for each word of the parsed response
WithMetadata(items, provider, prompt, response, difficulty_reference) ==
    [ k \in DOMAIN items |->
        [ english_word |-> items[k].english_word,
          turkish_translation |-> items[k].turkish_translation,
          part_of_speech |-> items[k].part_of_speech,
          examples |-> items[k].examples,
          llm_provider |-> provider,
          llm_model |-> GetModelName(provider),
          llm_prompt_hash |-> HashText(prompt),
          llm_response_hash |-> HashText(response),
          difficulty_level |-> ReplaceOxford(difficulty_reference) ] ]

\* what one attempt of a provider call ends in: a response returned or an
\* exception raised (the mock always answers)
Returned(response) == [ ok |-> TRUE, response |-> response, raised |-> "" ]
Raised(exception) == [ ok |-> FALSE, response |-> NoResponse, raised |-> exception ]

AttemptOutcomes(provider, prompt) ==
    IF provider = "mock" THEN {Returned(CallMock(prompt))}
    ELSE {Returned(JsonArray(<<MockWord(0)>>)), Returned(NotJson),
          Raised("TimeoutError"), Raised("ValueError")}

\* mutant: the loop gives up one attempt later
LastAttempt_OneMore(attempt, max_retries) == attempt = max_retries

\* if attempt == self.max_retries - 1: raise
LastAttempt(attempt, max_retries) == attempt = max_retries - 1

\* the record of a call of generate_vocabulary_set as it completes: what
\* _call_llm returned or raised, and what the call itself returns or raises
Generated(p, outcomes, response, raised) ==
    LET parsed == ParseVocabularyResponse(response)
        failed == raised # "" \/ parsed.raised # ""
    IN  [ NoCall EXCEPT
            !.op = "generate_vocabulary_set", !.proc = p, !.at = now,
            !.provider = sess[p].provider, !.max_retries = sess[p].max_retries,
            !.word_count = sess[p].word_count,
            !.difficulty_reference = sess[p].difficulty_reference,
            !.outcomes = outcomes, !.response = response, !.raised = raised,
            \* except Exception: return self._generate_mock_vocabulary(...), whose
            \* asyncio.run() raises inside the running event loop
            !.err = IF failed THEN "RuntimeError" ELSE "",
            !.vocabulary = IF failed THEN <<>>
                           ELSE WithMetadata(parsed.items, sess[p].provider,
                                             sess[p].prompt, response,
                                             sess[p].difficulty_reference) ]

\* generate_vocabulary_set: prompt = self._build_vocabulary_prompt(...);
\* response = await self._call_llm(prompt), whose loop starts
GenerateVocabularySet(p, provider, profile_level, word_count, difficulty_reference, max_retries) ==
    /\ sess[p].pc = "idle"
    /\ LET call == [IdleSession EXCEPT
                      !.op = "generate_vocabulary_set", !.at = now,
                      !.provider = provider, !.max_retries = max_retries,
                      !.word_count = word_count,
                      !.difficulty_reference = difficulty_reference,
                      !.prompt = BuildVocabularyPrompt(profile_level, word_count,
                                                       difficulty_reference)]
       IN  sess' = [sess EXCEPT ![p] =
              [call EXCEPT !.pc = IF max_retries > 0 THEN "llm_attempt" ELSE "llm_return"]]
    /\ UNCHANGED <<store, words, now, last, users, job>>

\* _call_llm: one attempt of the loop ends. A response is returned to
\* generate_vocabulary_set, which parses it and returns; a failure of the last
\* attempt is raised; any other failure is followed by the backoff
CallLlmAttempt(p) ==
    /\ sess[p].pc = "llm_attempt"
    /\ \E outcome \in AttemptOutcomes(sess[p].provider, sess[p].prompt) :
          LET outcomes == Append(sess[p].outcomes, outcome)
          IN  IF outcome.ok \/ LastAttempt(sess[p].attempt, sess[p].max_retries)
                THEN /\ last' = Generated(p, outcomes, outcome.response, outcome.raised)
                     /\ sess' = [sess EXCEPT ![p] = IdleSession]
                ELSE /\ sess' = [sess EXCEPT ![p] = [@ EXCEPT !.pc = "llm_backoff",
                                                             !.outcomes = outcomes]]
                     /\ UNCHANGED last
    /\ UNCHANGED <<store, words, now, users, job>>

\* await asyncio.sleep(2 ** attempt), then the next attempt of the loop
CallLlmBackoff(p) ==
    /\ sess[p].pc = "llm_backoff"
    /\ sess' = [sess EXCEPT ![p] =
          [@ EXCEPT !.attempt = @ + 1,
                    !.pc = IF sess[p].attempt + 1 < sess[p].max_retries
                             THEN "llm_attempt" ELSE "llm_return"]]
    /\ UNCHANGED <<store, words, now, last, users, job>>

(* tasks/scheduled_tasks.py: the periodic daily-vocabulary job *)

\* mutant: a send exactly 20 hours old is old enough
ShouldSendDailyWords_AtTwentyHours(user, t) ==
    \/ user.last_daily_words_sent = NoTime
    \/ t - user.last_daily_words_sent >= DailySendHours

\* _should_send_daily_words: never sent, or the last send is more than 20 hours old
ShouldSendDailyWords(user, t) ==
    \/ user.last_daily_words_sent = NoTime
    \/ t - user.last_daily_words_sent > DailySendHours

\* get_by_filter(is_active=True, notifications_enabled=True): the ids of the
\* rows of the users table t with notifications enabled, in id order
NotifiedUserIds(t) ==
    LET RECURSIVE From(_)
        From(i) == IF i \notin DOMAIN t THEN <<>>
                   ELSE IF t[i].notifications_enabled THEN <<i>> \o From(i + 1)
                   ELSE From(i + 1)
    IN  From(1)

\* users = await user_repo.get_by_filter(is_active=True, notifications_enabled=True);
\* success_count = 0; error_count = 0
JobLoadUsers(p) ==
    /\ job.pc = "idle"
    /\ sess[p].pc = "idle"
    /\ job' = [IdleJob EXCEPT !.pc = "loop", !.todo = NotifiedUserIds(users),
                              !.loaded = users]
    /\ UNCHANGED <<store, words, now, sess, last, users>>

\* for user in users: if _should_send_daily_words(user): ... (else the next user)
JobShouldSend(p) ==
    /\ job.pc = "loop"
    /\ job.todo # <<>>
    /\ LET u == Head(job.todo)
           send == ShouldSendDailyWords(job.loaded[u], now)
       IN  /\ job' = [job EXCEPT !.pc = IF send THEN "plan" ELSE "loop",
                                  !.user = u, !.todo = Tail(job.todo)]
           /\ last' = [NoCall EXCEPT !.op = "should_send_daily_words", !.proc = p,
                                     !.user = u, !.at = now,
                                     !.last_daily_words_sent =
                                         job.loaded[u].last_daily_words_sent]
    /\ UNCHANGED <<store, words, now, sess, users>>

\* learning_session = await srs_service.get_daily_learning_words(user=user, ...):
\* the call starts; its further steps are those of get_daily_learning_words
JobPlan(p) ==
    /\ job.pc = "plan"
    /\ last.op = "should_send_daily_words"
    /\ PlanDue(p, job.user, job.loaded[job.user].daily_word_count)

\* if learning_session["total_count"] > 0: send, update_by_id(user.id,
\* last_daily_words_sent=datetime.utcnow()), success_count += 1;
\* except Exception: error_count += 1
JobDeliver(p) ==
    /\ job.pc = "plan"
    /\ sess[p].pc = "idle"
    /\ last.op = "plan"
    /\ LET u == job.user
           delivered == last.err = "" /\ last.result.total_count > 0
       IN  /\ users' = IF delivered
                         THEN [users EXCEPT ![u].last_daily_words_sent = now]
                         ELSE users
           /\ job' = [job EXCEPT
                        !.pc = "loop",
                        !.success_count = IF delivered THEN @ + 1 ELSE @,
                        !.error_count = IF last.err # "" THEN @ + 1 ELSE @]
           /\ last' = [NoCall EXCEPT
                         !.op = "send_daily_vocabulary", !.proc = p, !.user = u,
                         !.at = now, !.err = last.err, !.result = last.result,
                         !.last_daily_words_sent = users[u].last_daily_words_sent]
    /\ UNCHANGED <<store, words, now, sess>>

\* return {"success": success_count, "errors": error_count}
JobReturn(p) ==
    /\ job.pc = "loop"
    /\ job.todo = <<>>
    /\ job' = IdleJob
    /\ UNCHANGED <<store, words, now, sess, last, users>>

----------------------------------------------------------------------------
(* Spec: calls on one record that take effect one after the other (one     *)
(* session at a time)                                                      *)

Next ==
    \/ \E u \in Users, w \in Words : CreateOrGetLookup("p1", u, w)
    \/ CreateOrGetInsert("p1")
    \/ \E u \in Users, w \in Words, ok \in BOOLEAN, x \in ReviewExtras :
          RecordWordReviewLoad("p1", u, w, ok, x[1], x[2], MaxReviews)
    \/ RecordWordReviewCommit("p1")
    \/ \E u \in Users, w \in Words : ResetWordProgressLookup("p1", u, w)
    \/ ResetWordProgressUpdate("p1")
    \/ Tick(MaxClock)

Spec == Init /\ [][Next]_vars

(* SpecOps: every call that writes one record, one session at a time *)

NextOps ==
    \/ \E u \in Users, w \in Words : CreateOrGetLookup("p1", u, w)
    \/ CreateOrGetInsert("p1")
    \/ \E u \in Users, w \in Words, ok \in BOOLEAN :
          RecordWordReviewLoad("p1", u, w, ok, NoTime, NoRating, MaxOpsReviews)
    \/ RecordWordReviewCommit("p1")
    \/ \E u \in Users, w \in Words : ResetWordProgressLookup("p1", u, w)
    \/ ResetWordProgressUpdate("p1")
    \/ \E u \in Users, w \in Words, v \in BOOLEAN : FlagDifficultWordLookup("p1", u, w, v)
    \/ FlagDifficultWordUpdate("p1")
    \/ \E u \in Users, w \in Words, v \in BOOLEAN : MarkWordAsFavoriteLookup("p1", u, w, v)
    \/ MarkWordAsFavoriteUpdate("p1")
    \/ \E u \in Users, w \in Words, n \in Notes : AddUserNoteToWordLookup("p1", u, w, n)
    \/ AddUserNoteToWordUpdate("p1")
    \/ Tick(MaxOpsClock)

SpecOps == Init /\ [][NextOps]_vars

(* SpecConc: two sessions whose calls overlap at one instant:               *)
(* create_or_get and daily session plans                                   *)

NextConc ==
    \/ \E p \in Procs, u \in ConcUsers, w \in ConcWords : CreateOrGetLookup(p, u, w)
    \/ \E p \in Procs : CreateOrGetInsert(p)
    \/ \E p \in Procs, u \in ConcUsers, q \in 0..MaxQuota : PlanDue(p, u, q)
    \/ \E p \in Procs : PlanLearned(p)
    \/ \E p \in Procs : PlanSupply(p, LlmDown)
    \/ \E p \in Procs : AssignLookup(p)
    \/ \E p \in Procs : PlanReturn(p)

SpecConc == Init /\ [][NextConc]_vars

(* SpecPlan: daily sessions of one user planned one after the other, with   *)
(* reviews, the clock and another user's record in between                 *)

NextPlan ==
    \/ \E u \in PlanUsers, q \in MinQuota..MaxQuota : PlanDue("p1", u, q)
    \/ PlanLearned("p1")
    \/ PlanSupply("p1", LlmAnswers)
    \/ AssignLookup("p1")
    \/ CreateOrGetInsert("p1")
    \/ PlanReturn("p1")
    \/ \E u \in OtherUsers, w \in Words : CreateOrGetLookup("p1", u, w)
    \/ \E u \in PlanUsers, w \in 1..MaxWordRows :
          RecordWordReviewLoad("p1", u, w, TRUE, NoTime, NoRating, MaxPlanReviews)
    \/ RecordWordReviewCommit("p1")
    \/ Tick(MaxClock)

SpecPlan == Init /\ [][NextPlan]_vars

(* SpecArgs: reviews of one record with every kind of argument *)

NextArgs ==
    \/ \E u \in Users, w \in Words : CreateOrGetLookup("p1", u, w)
    \/ CreateOrGetInsert("p1")
    \/ \E u \in Users, w \in Words, ok \in BOOLEAN,
          response_time \in ResponseTimes, difficulty \in Difficulties :
          RecordWordReviewLoad("p1", u, w, ok, response_time, difficulty, MaxArgReviews)
    \/ RecordWordReviewCommit("p1")
    \/ Tick(MaxClock)

SpecArgs == Init /\ [][NextArgs]_vars

(* SpecFrame: every operation of one user, on records for two words and  *)
(* next to the reviewed record of another user                            *)

NextFrame ==
    \/ \E u \in PlanUsers, q \in 1..MaxQuota : PlanDue("p1", u, q)
    \/ PlanLearned("p1")
    \/ PlanSupply("p1", LlmDown)
    \/ AssignLookup("p1")
    \/ CreateOrGetInsert("p1")
    \/ PlanReturn("p1")
    \/ \E u \in OtherUsers, w \in Words : CreateOrGetLookup("p1", u, w)
    \/ \E u \in PlanUsers \cup OtherUsers, w \in ConcWords, ok \in BOOLEAN :
          RecordWordReviewLoad("p1", u, w, ok, NoTime, NoRating, MaxFrameReviews)
    \/ RecordWordReviewCommit("p1")
    \/ \E u \in PlanUsers, w \in ConcWords : ResetWordProgressLookup("p1", u, w)
    \/ ResetWordProgressUpdate("p1")
    \/ \E u \in PlanUsers, w \in Words : FlagDifficultWordLookup("p1", u, w, TRUE)
    \/ FlagDifficultWordUpdate("p1")
    \/ \E u \in PlanUsers, w \in Words : MarkWordAsFavoriteLookup("p1", u, w, TRUE)
    \/ MarkWordAsFavoriteUpdate("p1")
    \/ \E u \in PlanUsers, w \in Words, n \in Notes : AddUserNoteToWordLookup("p1", u, w, n)
    \/ AddUserNoteToWordUpdate("p1")

SpecFrame == Init /\ [][NextFrame]_vars

(* SpecCancel: creations and reviews of two sessions, any of which can be *)
(* cancelled before its commit                                            *)

NextCancel ==
    \/ \E p \in Procs, u \in Users, w \in Words : CreateOrGetLookup(p, u, w)
    \/ \E p \in Procs : CreateOrGetInsert(p)
    \/ \E p \in Procs, u \in Users, w \in Words, ok \in BOOLEAN, x \in ReviewExtras :
          RecordWordReviewLoad(p, u, w, ok, x[1], x[2], MaxConcReviews)
    \/ \E p \in Procs : RecordWordReviewCommit(p)
    \/ \E p \in Procs : Cancel(p)

SpecCancel == Init /\ [][NextCancel]_vars

(* SpecStats: the statistics of a user with records for two words, next   *)
(* to another user's record, between reviews and clock ticks              *)

NextStats ==
    \/ \E u \in PlanUsers, w \in ConcWords : CreateOrGetLookup("p1", u, w)
    \/ \E u \in OtherUsers, w \in Words : CreateOrGetLookup("p1", u, w)
    \/ CreateOrGetInsert("p1")
    \/ \E u \in PlanUsers, w \in ConcWords, ok \in BOOLEAN :
          RecordWordReviewLoad("p1", u, w, ok, NoTime, NoRating, MaxStatReviews)
    \/ RecordWordReviewCommit("p1")
    \/ \E u \in PlanUsers \cup OtherUsers : StatisticsLoad("p1", u)
    \/ StatisticsReturn("p1")
    \/ Tick(MaxClock)

SpecStats == Init /\ [][NextStats]_vars

(* SpecLong: long runs of reviews of one record, the clock standing still *)

NextLong ==
    \/ \E u \in Users, w \in Words : CreateOrGetLookup("p1", u, w)
    \/ CreateOrGetInsert("p1")
    \/ \E u \in Users, w \in Words, ok \in BOOLEAN :
          RecordWordReviewLoad("p1", u, w, ok, NoTime, NoRating, MaxLongReviews)
    \/ RecordWordReviewCommit("p1")

SpecLong == Init /\ [][NextLong]_vars

(* SpecMastery: a few reviews with either outcome, then correct reviews    *)
(* only, which keep coming                                                *)

CorrectReview ==
    \E u \in Users, w \in Words :
        RecordWordReviewLoad("p1", u, w, TRUE, NoTime, NoRating, MaxRunReviews)

NextMastery ==
    \/ \E u \in Users, w \in Words : CreateOrGetLookup("p1", u, w)
    \/ CreateOrGetInsert("p1")
    \/ \E u \in Users, w \in Words :
          RecordWordReviewLoad("p1", u, w, FALSE, NoTime, NoRating, MaxWarmup)
    \/ CorrectReview
    \/ RecordWordReviewCommit("p1")

SpecMastery ==
    /\ Init /\ [][NextMastery]_vars
    /\ WF_vars(CorrectReview)
    /\ WF_vars(RecordWordReviewCommit("p1"))

(* SpecDue: reviews of one record while the clock runs for a day *)

NextDue ==
    \/ \E u \in Users, w \in Words : CreateOrGetLookup("p1", u, w)
    \/ CreateOrGetInsert("p1")
    \/ \E u \in Users, w \in Words, ok \in BOOLEAN :
          RecordWordReviewLoad("p1", u, w, ok, NoTime, NoRating, MaxDueReviews)
    \/ RecordWordReviewCommit("p1")
    \/ Tick(MaxDueClock)

SpecDue == Init /\ [][NextDue]_vars

(* SpecRepeat: daily sessions planned again and again for one user, with *)
(* no review in between and the clock standing still                     *)

NextRepeat ==
    \/ \E u \in PlanUsers, w \in Words : CreateOrGetLookup("p1", u, w)
    \/ \E u \in PlanUsers, q \in MinQuota..MaxQuota : PlanDue("p1", u, q)
    \/ PlanLearned("p1")
    \/ PlanSupply("p1", LlmAnswers)
    \/ AssignLookup("p1")
    \/ CreateOrGetInsert("p1")
    \/ PlanReturn("p1")

SpecRepeat == Init /\ [][NextRepeat]_vars

(* SpecJob: runs of the daily-vocabulary job, one after the other, over *)
(* two days; the second user's daily_word_count and notifications vary  *)

InitJob ==
    /\ store = <<>>
    /\ words = SeedWords
    /\ now = 0
    /\ sess = [p \in Procs |-> IdleSession]
    /\ last = NoCall
    /\ users \in {t \in [JobUsers -> {NewUser(q, n) : q \in {0, MaxQuota}, n \in BOOLEAN}] :
                      \A u \in PlanUsers : t[u] = NewUser(MaxQuota, TRUE)}
    /\ job = IdleJob

NextJob ==
    \/ JobLoadUsers("p1")
    \/ JobShouldSend("p1")
    \/ JobPlan("p1")
    \/ PlanLearned("p1")
    \/ PlanSupply("p1", LlmDown)
    \/ AssignLookup("p1")
    \/ CreateOrGetInsert("p1")
    \/ PlanReturn("p1")
    \/ JobDeliver("p1")
    \/ JobReturn("p1")
    \/ Tick(MaxJobClock)

SpecJob == InitJob /\ [][NextJob]_vars

(* SpecLlm: calls of generate_vocabulary_set, one after the other, with *)
(* every provider, word count, difficulty reference and max_retries     *)

NextLlm ==
    \/ \E provider \in Providers, word_count \in 0..MaxWordCount,
          difficulty_reference \in DifficultyReferences, max_retries \in 1..MaxRetries :
          GenerateVocabularySet("p1", provider, <<DefaultLevel>>, word_count,
                                difficulty_reference, max_retries)
    \/ CallLlmAttempt("p1")
    \/ CallLlmBackoff("p1")

SpecLlm == Init /\ [][NextLlm]_vars

(* SpecRetry: the retry loop of _call_llm under calls for one word with   *)
(* every provider and every max_retries; the awaited provider call of an *)
(* attempt returns or raises, and the sleep between two attempts ends    *)

NextRetry ==
    \/ \E provider \in Providers, max_retries \in 1..MaxRetries :
          GenerateVocabularySet("p1", provider, <<DefaultLevel>>, 1,
                                <<"Oxford3000_", DefaultLevel>>, max_retries)
    \/ CallLlmAttempt("p1")
    \/ CallLlmBackoff("p1")

SpecRetry ==
    /\ Init /\ [][NextRetry]_vars
    /\ WF_vars(CallLlmAttempt("p1")) /\ WF_vars(CallLlmBackoff("p1"))

(* SpecRace: two sessions whose reviews of one record overlap *)

NextRace ==
    \/ \E u \in Users, w \in Words : CreateOrGetLookup("p1", u, w)
    \/ CreateOrGetInsert("p1")
    \/ \E p \in Procs, u \in Users, w \in Words, ok \in BOOLEAN :
          RecordWordReviewLoad(p, u, w, ok, NoTime, NoRating, MaxConcReviews)
    \/ \E p \in Procs : RecordWordReviewCommit(p)

SpecRace == Init /\ [][NextRace]_vars

----------------------------------------------------------------------------
(* Properties *)

\* the last completed call was a review of an existing record
LastReview == last.op = "record_review" /\ last.id # NoId
\* the record the last call was about, as stored now
Post == store[last.id]

\* C1: after any sequence of record_review and reset calls on a record created
\* with defaults, srs_level >= 0, srs_interval >= 1 and 1.3 <= ease_factor <= 3.0
C1_SrsFieldsInRange ==
    \A i \in DOMAIN store :
        /\ store[i].srs_level >= 0
        /\ store[i].srs_interval >= 1
        /\ store[i].ease_factor >= 13
        /\ store[i].ease_factor <= 30

\* an incorrect review at level 0 with the ease factor already at its minimum
C1_Witness ==
    /\ LastReview /\ ~last.is_correct
    /\ last.pre.srs_level = 0 /\ last.pre.ease_factor = 13
    /\ last.pre.consecutive_incorrect >= 1

\* C2: whenever total_reviews > 0 the stored accuracy_rate equals
\* correct_reviews / total_reviews, and lies in [0, 1]
C2_AccuracyIsQuotient ==
    \A i \in DOMAIN store :
        store[i].total_reviews > 0 =>
            /\ store[i].accuracy_rate.set
            /\ store[i].accuracy_rate.num * store[i].total_reviews
                 = store[i].correct_reviews * store[i].accuracy_rate.den
            /\ 0 <= store[i].accuracy_rate.num
            /\ store[i].accuracy_rate.num <= store[i].accuracy_rate.den

\* a reset of a record that has both correct and incorrect reviews
C2_Witness ==
    /\ last.op = "reset" /\ last.id # NoId
    /\ Post.correct_reviews > 0
    /\ Post.correct_reviews < Post.total_reviews
    /\ Post.accuracy_rate.den > 2

\* C3: at most one record exists per (user, word) pair, and a create_or_get call
\* that finds a record for the pair returns that record and creates nothing
C3_OneRecordPerPair ==
    /\ \A i, j \in DOMAIN store :
          (store[i].user_id = store[j].user_id /\ store[i].word_id = store[j].word_id)
              => i = j
    /\ \A i \in DOMAIN store : store[i].id = i
    /\ (last.op = "create_or_get" /\ last.err = "") =>
          /\ last.id = GetByUserAndWord(store, last.user, last.word)
          /\ MatchingIds(store, last.user, last.word) = {last.id}
    /\ (last.op = "create_or_get" /\ last.pre.id # NoId) =>
          /\ last.err = ""
          /\ last.id = last.pre.id
          /\ Len(store) = last.rows

\* two sessions both past their lookup for the same pair, one of them has inserted
C3_Witness ==
    /\ last.op = "create_or_get" /\ last.err = "" /\ last.pre.id = NoId
    /\ \E p \in Procs :
          /\ p # last.proc
          /\ sess[p].pc = "create_insert"
          /\ sess[p].user = last.user /\ sess[p].word = last.word

\* C4: a create_or_get call whose insert meets a record that a concurrent call
\* inserted after its lookup completes without error and returns that record
C4_ConcurrentCreateOrGetSucceeds ==
    (last.op = "create_or_get" /\ last.raced) =>
        /\ last.err = ""
        /\ last.id = GetByUserAndWord(store, last.user, last.word)

\* C5: when another review of the record was committed between a review's load
\* and its commit, both count: total_reviews has grown by 2
C5_OverlappingReviewsBothCount ==
    (LastReview /\ last.cur.total_reviews = last.pre.total_reviews + 1) =>
        Post.total_reviews = last.pre.total_reviews + 2

\* C6: on a correct review level 0 gives (1, 1), level 1 gives (2, 6), and a
\* level >= 2 gives level + 1 and floor(srs_interval * ease_factor), with the
\* ease factor held before the review
C6_SuccessRule ==
    (LastReview /\ last.is_correct) =>
        /\ last.pre.srs_level = 0 => (Post.srs_level = 1 /\ Post.srs_interval = 1)
        /\ last.pre.srs_level = 1 => (Post.srs_level = 2 /\ Post.srs_interval = 6)
        /\ last.pre.srs_level >= 2 =>
              /\ Post.srs_level = last.pre.srs_level + 1
              /\ Post.srs_interval = (last.pre.srs_interval * last.pre.ease_factor) \div 10

\* a correct review at level >= 2 that changes the ease factor and whose
\* product is not a whole number of days
C6_Witness ==
    /\ LastReview /\ last.is_correct
    /\ last.pre.srs_level >= 2
    /\ Post.ease_factor # last.pre.ease_factor
    /\ (last.pre.srs_interval * last.pre.ease_factor) % 10 # 0

\* C7: on an incorrect review srs_level becomes max(0, srs_level - 1),
\* srs_interval 1, consecutive_incorrect grows by 1, consecutive_correct becomes
\* 0 and correct_reviews is unchanged
C7_FailureRule ==
    (LastReview /\ ~last.is_correct) =>
        /\ Post.srs_level = IF last.pre.srs_level >= 1 THEN last.pre.srs_level - 1 ELSE 0
        /\ Post.srs_interval = 1
        /\ Post.consecutive_incorrect = last.pre.consecutive_incorrect + 1
        /\ Post.consecutive_correct = 0
        /\ Post.correct_reviews = last.pre.correct_reviews

\* an incorrect review that ends a streak at a level above 1 and a longer interval
C7_Witness ==
    /\ LastReview /\ ~last.is_correct
    /\ last.pre.srs_level >= 2 /\ last.pre.srs_interval > 1
    /\ last.pre.consecutive_correct >= 2

\* C8: a review changes ease_factor only when the streak it leaves is at least
\* 2: up by 0.1 (at most 3.0) on a correct one, down by 0.2 (at least 1.3) on an
\* incorrect one
C8_EaseRule ==
    LastReview =>
        IF last.is_correct
          THEN IF Post.consecutive_correct >= 2
                 THEN Post.ease_factor
                        = (IF last.pre.ease_factor + 1 <= 30 THEN last.pre.ease_factor + 1 ELSE 30)
                 ELSE Post.ease_factor = last.pre.ease_factor
          ELSE IF Post.consecutive_incorrect >= 2
                 THEN Post.ease_factor
                        = (IF last.pre.ease_factor - 2 >= 13 THEN last.pre.ease_factor - 2 ELSE 13)
                 ELSE Post.ease_factor = last.pre.ease_factor

\* the first incorrect review after a correct streak that had raised the ease factor
C8_Witness ==
    /\ LastReview /\ ~last.is_correct
    /\ last.pre.consecutive_correct >= 2
    /\ last.pre.ease_factor > 25
    /\ Post.ease_factor = last.pre.ease_factor

\* C9: a review of a record whose status is new leaves status learning, and on
\* a correct outcome srs_level 1 and srs_interval 1; no record is new right
\* after a review
C9_FirstReviewLearning ==
    LastReview =>
        /\ Post.status # "new"
        /\ last.pre.status = "new" =>
              /\ Post.status = "learning"
              /\ last.is_correct => (Post.srs_level = 1 /\ Post.srs_interval = 1)

\* the first review after the reset of a record that had been mastered
C9_Witness ==
    /\ LastReview
    /\ last.pre.status = "new"
    /\ last.pre.mastered_at # NoTime
    /\ last.pre.total_reviews >= 5

\* C10: a review that leaves accuracy_rate >= 0.9, srs_level >= 5 and
\* consecutive_correct >= 3 leaves status mastered, mastered_at set and
\* next_review_at = now + 2 * srs_interval days
C10_Mastery ==
    (/\ LastReview
     /\ Post.accuracy_rate.set
     /\ 10 * Post.accuracy_rate.num >= 9 * Post.accuracy_rate.den
     /\ Post.srs_level >= 5
     /\ Post.consecutive_correct >= 3) =>
        /\ Post.status = "mastered"
        /\ Post.mastered_at # NoTime
        /\ Post.next_review_at = last.at + 24 * (2 * Post.srs_interval)

\* the review that first masters a learning record
C10_Witness ==
    /\ LastReview
    /\ last.pre.status = "learning"
    /\ Post.status = "mastered"
    /\ Post.mastered_at = last.at
    /\ Post.srs_interval > 1

\* C11: a mastered record stays mastered after a single incorrect review
\* (consecutive_incorrect = 1), is demoted to review by the review that brings
\* consecutive_incorrect to 2, and no review takes it from mastered to failed
C11_MasteredDemotion ==
    (LastReview /\ last.pre.status = "mastered") =>
        /\ (~last.is_correct /\ Post.consecutive_incorrect = 1) => Post.status = "mastered"
        /\ (~last.is_correct /\ Post.consecutive_incorrect = 2) => Post.status = "review"
        /\ Post.status # "failed"

\* the second incorrect review in a row of a mastered record
C11_Witness ==
    /\ LastReview /\ ~last.is_correct
    /\ last.pre.status = "mastered"
    /\ last.pre.consecutive_incorrect = 1
    /\ Post.status = "review"

\* C12: for a record whose status before the call is not mastered, a review that
\* leaves total_reviews >= 5, accuracy_rate < 0.3 (any value in [0, 0.3)) and
\* consecutive_incorrect >= 3 leaves status = failed
C12_FailedRule ==
    (/\ LastReview
     /\ last.pre.status # "mastered"
     /\ Post.total_reviews >= 5
     /\ Post.accuracy_rate.set
     /\ 10 * Post.accuracy_rate.num < 3 * Post.accuracy_rate.den
     /\ Post.consecutive_incorrect >= 3) =>
        Post.status = "failed"

\* C13: after every review next_review_at is computed from the status the same
\* call produced: now + 2 * srs_interval days if mastered, now + 4 hours if
\* failed whatever the interval, now + srs_interval days otherwise
C13_ScheduleFromFinalStatus ==
    LastReview =>
        Post.next_review_at =
            IF Post.status = "mastered" THEN last.at + 24 * (2 * Post.srs_interval)
            ELSE IF Post.status = "failed" THEN last.at + 4
            ELSE last.at + 24 * Post.srs_interval

\* the review that turns a learning record into a failed one
C13_Witness ==
    /\ LastReview
    /\ last.pre.status = "learning"
    /\ Post.status = "failed"
    /\ Post.next_review_at = last.at + 4

\* C14: a correct review never leaves a smaller srs_interval than the record
\* had before it, so the intervals along a run of correct reviews never decrease
C14_IntervalMonotone ==
    (LastReview /\ last.is_correct) =>
        Post.srs_interval >= last.pre.srs_interval

\* a correct review at level 2 or above right after a failure reset the interval
C14_Witness ==
    /\ LastReview /\ last.is_correct
    /\ last.pre.srs_level >= 2
    /\ last.pre.srs_interval = 1
    /\ last.pre.consecutive_incorrect >= 1
    /\ Post.srs_interval >= 1

LastPlan == last.op = "plan" /\ last.err = ""

\* C17: the review list a plan returns is exactly the set of the user's records
\* with next_review_at <= now at the time of the plan: every due record is in
\* it, also when there are more of them than the quota, and no other record is
C17_ReviewsAreExactlyDue ==
    LastPlan =>
        LET due == {i \in 1..last.rows_before :
                       /\ store[i].user_id = last.user
                       /\ store[i].next_review_at <= last.planned_at}
            listed == last.result.review_words
        IN  /\ {listed[k] : k \in DOMAIN listed} = due
            /\ Len(listed) = Cardinality(due)

\* a plan with more due records than the quota, while the user also has a
\* record that is not due and another user has a due record
C17_Witness ==
    /\ LastPlan
    /\ last.quota > 0
    /\ Len(last.result.review_words) > last.quota
    /\ \E i \in 1..last.rows_before :
          store[i].user_id = last.user /\ store[i].next_review_at > last.planned_at
    /\ \E i \in 1..last.rows_before :
          store[i].user_id # last.user /\ store[i].next_review_at <= last.planned_at

\* C18: a plan asks the word supply for exactly max(0, quota - due reviews) new
\* words; when that number is 0 it makes no supply request, returns no new
\* word and creates no record; it never returns more new words than it asked for
C18_RequestedNewWords ==
    LastPlan =>
        LET slots == last.quota - Len(last.result.review_words)
            remaining == IF slots > 0 THEN slots ELSE 0
        IN  /\ last.requested = remaining
            /\ last.supplied <=> remaining > 0
            /\ remaining = 0 =>
                  /\ last.result.new_words = <<>>
                  /\ Len(store) = last.rows_before
            /\ Len(last.result.new_words) <= remaining

\* a plan with due reviews and free slots whose supply call generated a word
\* beyond the slots: the word is in the table and was not returned
C18_Witness ==
    /\ LastPlan
    /\ last.result.review_words # <<>>
    /\ last.requested > 0
    /\ Len(last.result.new_words) = last.requested
    /\ \E i \in DOMAIN words :
          /\ ~words[i].is_verified
          /\ \A j \in DOMAIN store : store[j].word_id # i

\* C19: when the word supply delivers fewer words than requested the plan still
\* completes without raising, returns all due reviews and the words delivered,
\* and total_count is the number of reviews plus the number of new words
C19_ShortfallCompletes ==
    (last.op = "plan" /\ Len(last.new_words) < last.requested) =>
        /\ last.err = ""
        /\ last.result.review_words = last.reviews
        /\ last.result.new_words = last.new_words
        /\ last.result.total_count = Len(last.reviews) + Len(last.new_words)

\* a plan with due reviews whose supply call met a failing language model and
\* delivered fewer words than asked for
C19_Witness ==
    /\ LastPlan
    /\ last.reviews # <<>>
    /\ last.requested > 0
    /\ Len(last.new_words) < last.requested
    /\ last.result.total_count < last.quota

\* C20: whenever a plan obtains fewer new words than it requested the returned
\* result carries a field that flags the partial assignment, and it carries no
\* such flag when the request was fully satisfied
C20_PartialAssignmentFlagged ==
    LastPlan =>
        (Len(last.result.new_words) < last.requested
            <=> \E f \in DOMAIN last.result : f \notin DOMAIN EmptyResult)

\* C21: no word a plan returns as a new word had a record for that user before
\* the call, due or not, and no word appears twice in the new-word list,
\* whether the words come from the verified cache or from generation
C21_NewWordsAreNew ==
    LastPlan =>
        LET new_words == last.result.new_words
        IN  /\ \A k \in DOMAIN new_words :
                  \A i \in 1..last.rows_before :
                      ~(store[i].user_id = last.user /\ store[i].word_id = new_words[k])
            /\ \A k, l \in DOMAIN new_words : new_words[k] = new_words[l] => k = l

\* C22: when a plan returns, every word in its new-word list has exactly one
\* record for that user, and each record the call created has status new,
\* srs_level 0, srs_interval 1, ease_factor 2.5, all review counters 0 and
\* next_review_at equal to the time of its creation
C22_AssignedWithDefaults ==
    [][/\ \A i \in DOMAIN store' \ DOMAIN store :
             /\ store'[i].status = "new"
             /\ store'[i].srs_level = 0
             /\ store'[i].srs_interval = 1
             /\ store'[i].ease_factor = 25
             /\ store'[i].total_reviews = 0
             /\ store'[i].correct_reviews = 0
             /\ store'[i].consecutive_correct = 0
             /\ store'[i].consecutive_incorrect = 0
             /\ store'[i].next_review_at = now
       /\ (last' # last /\ last'.op = "plan" /\ last'.err = "") =>
             /\ \A k \in DOMAIN last'.result.new_words :
                   Cardinality({i \in DOMAIN store' :
                                   /\ store'[i].user_id = last'.user
                                   /\ store'[i].word_id = last'.result.new_words[k]}) = 1
             /\ \A i \in (last'.rows_before + 1)..Len(store') :
                   /\ [store'[i] EXCEPT !.next_review_at = 0]
                         = NewProgress(i, last'.user, store'[i].word_id, 0)
                   /\ store'[i].next_review_at >= last'.planned_at
                   /\ \E k \in DOMAIN last'.result.new_words :
                         last'.result.new_words[k] = store'[i].word_id]_vars

\* a returned plan that created a record for a generated word after the clock
\* had advanced
C22_Witness ==
    /\ LastPlan
    /\ Len(store) > last.rows_before
    /\ store[Len(store)].word_id > Len(SeedWords)
    /\ store[Len(store)].next_review_at > 0

\* C23: a review for a (user, word) pair that has no record fails with
\* NotFoundError, creates no record and leaves every existing record unchanged
C23_MissingRecordRaises ==
    (last.op = "record_review" /\ MatchingIds(store, last.user, last.word) = {}) =>
        /\ last.err = "NotFoundError"
        /\ Len(store) = last.rows

\* C23 as the code has it: a review for a pair that has no record returns None
\* without raising, creates no record and leaves every existing record unchanged
C23_MissingRecordReturnsNone ==
    [][(/\ last' # last
        /\ last'.op = "record_review"
        /\ MatchingIds(store, last'.user, last'.word) = {}) =>
            /\ last'.err = ""
            /\ last'.id = NoId
            /\ store' = store]_vars

\* a review for a word the user has no record for, while the user has a
\* reviewed record for another word and another user has a record too
C23_Witness ==
    /\ last.op = "record_review" /\ last.id = NoId
    /\ MatchingIds(store, last.user, last.word) = {}
    /\ \E i \in DOMAIN store : store[i].user_id = last.user /\ store[i].total_reviews > 0
    /\ \E i \in DOMAIN store : store[i].user_id # last.user

\* the arguments of the review a session is about to commit are malformed
InvalidArguments(p) ==
    \/ sess[p].response_time # NoTime /\ sess[p].response_time < 0
    \/ sess[p].difficulty # NoRating /\ sess[p].difficulty \notin RatingScale

\* C24: record_review called with response_time < 0 or with a difficulty rating
\* outside 1..5 is rejected with InvalidArgument before any mutation: every field
\* of the record is the same after the call as before
C24_InvalidArgumentsRejected ==
    [][\A p \in Procs :
          (sess[p].pc = "review_commit" /\ sess'[p].pc = "idle" /\ InvalidArguments(p)) =>
              /\ store' = store
              /\ last'.err = "InvalidArgument"]_vars

\* the operations that write the one record they were called for
RecordOps == {"record_review", "reset", "flag", "favorite", "note"}

\* the elements of a sequence
Range(q) == {q[k] : k \in DOMAIN q}

\* C25: an operation changes only the records it targets: record_review, reset,
\* flag, favorite and note on (user A, word w) leave every other record
\* unchanged, and a daily session plan for A leaves every existing record of
\* every user unchanged and only creates records for A's new words
C25_OnlyTargetedRecordsChange ==
    [][/\ \A i \in DOMAIN store :
            /\ i \in DOMAIN store'
            /\ store'[i] # store[i] =>
                  \E p \in Procs : /\ sess[p].op \in RecordOps
                                   /\ store[i].user_id = sess[p].user
                                   /\ store[i].word_id = sess[p].word
       /\ \A i \in DOMAIN store' \ DOMAIN store :
            \E p \in Procs : /\ sess[p].op \in {"plan", "create_or_get"}
                             /\ store'[i].user_id = sess[p].user
                             /\ sess[p].op = "plan" => store'[i].word_id \in Range(sess[p].new_words)]_vars

\* a record was reset while the same user's record for another word and
\* another user's record, both reviewed, were in the table
C25_Witness ==
    /\ last.op = "reset" /\ last.id # NoId
    /\ store[last.id] # last.pre
    /\ \E i \in DOMAIN store : /\ store[i].user_id = last.user /\ i # last.id
                                /\ store[i].total_reviews > 0 /\ store[i].is_flagged
    /\ \E i \in DOMAIN store : store[i].user_id # last.user /\ store[i].total_reviews > 0

\* a step in which no call made for user u writes and the clock stands still
NoStepOf(u) == now' = now /\ \A p \in Procs : sess[p].pc = "idle" \/ sess[p].user # u

\* C26: operations of different users share no mutable state: the session that
\* a daily plan returns for user B (its reviews and the words it offers as new)
\* is the same whether or not operations of another user A were executed before
C26_PlanIndependentOfOtherUsers ==
    [][\A u \in PlanUsers \cup OtherUsers :
          NoStepOf(u) =>
              \A quota \in 0..MaxQuota, llm \in LlmAnswers :
                  GetDailyLearningWords(store', words', u, quota, now', llm)
                      = GetDailyLearningWords(store, words, u, quota, now, llm)]_vars

\* C26 as the code has it: the records of user B and the reviews of B's daily
\* plan are the same whether or not operations of another user A were executed
\* before; the words offered as new come from the words table all users share,
\* whose usage counts and rows the plans of other users change
C26_ReviewsIndependentOfOtherUsers ==
    [][\A u \in PlanUsers \cup OtherUsers :
          NoStepOf(u) =>
              /\ GetWordsDueForReview(store', u, now') = GetWordsDueForReview(store, u, now)
              /\ GetUserLearnedWordIds(store', u) = GetUserLearnedWordIds(store, u)
              /\ \A i \in DOMAIN store : store[i].user_id = u => store'[i] = store[i]]_vars

\* user 1's plan returned new words and raised their usage counts: user 2 is
\* now offered another new word than the untouched words table would offer
C26_Witness ==
    /\ LastPlan /\ last.user \in PlanUsers /\ last.result.new_words # <<>>
    /\ \E u \in OtherUsers, quota \in 1..MaxQuota :
          GetDailyLearningWords(store, words, u, quota, now, LlmFailure).new_words
              # GetDailyLearningWords(store, SeedWords, u, quota, now, LlmFailure).new_words

\* the column each of the three operations writes
AnnotationOps == {"flag", "favorite", "note"}

\* row b is row a except, at most, for the column operation op writes
SameButColumn(op, a, b) ==
    CASE op = "flag"     -> b = [a EXCEPT !.is_flagged = b.is_flagged]
      [] op = "favorite" -> b = [a EXCEPT !.is_favorite = b.is_favorite]
      [] op = "note"     -> b = [a EXCEPT !.notes = b.notes]

\* C27: flag, favorite and note on an existing record change only is_flagged,
\* is_favorite or notes respectively (status, the SRS fields, the counters and
\* streaks, accuracy_rate and next_review_at are unchanged); on a non-existent
\* record they change nothing
C27_AnnotationsChangeOneColumn ==
    [][/\ \A p \in Procs :
            (sess[p].op \in AnnotationOps /\ sess'[p].pc = "idle") =>
                /\ \A i \in DOMAIN store : i # sess[p].id => store'[i] = store[i]
                /\ DOMAIN store' = DOMAIN store
                /\ SameButColumn(sess[p].op, store[sess[p].id], store'[sess[p].id])
       /\ (last' # last /\ last'.op \in AnnotationOps /\ last'.id = NoId) =>
                store' = store]_vars

\* a note was written on a record that had been reviewed, left status "new"
\* and is scheduled for a later time
C27_Witness ==
    /\ last.op = "note" /\ last.id # NoId
    /\ store[last.id].notes # last.pre.notes
    /\ store[last.id].total_reviews > 1
    /\ store[last.id].status # "new"
    /\ store[last.id].next_review_at > now

\* session p is inside assign_words_to_user and the insert it is about to
\* commit fails
AssignmentCreateFails(p) ==
    /\ sess[p].op = "plan" /\ sess[p].pc = "create_insert"
    /\ UniqueViolation(store, sess[p].user, sess[p].word)

\* the words of the assignment that session p has been through already
AssignedSoFar(p) ==
    {sess[p].new_words[k] : k \in 1..(Len(sess[p].new_words) - Len(sess[p].todo))}

\* the records for the words an assignment went through before the failing
\* one are still in the table after the failure
C28_EarlierRecordsRemain ==
    [][\A p \in Procs :
          AssignmentCreateFails(p) =>
              \A w \in AssignedSoFar(p) : MatchingIds(store', sess[p].user, w) # {}]_vars

\* C28: when the creation of the record for one of several new words fails, the
\* records already created for the earlier words remain in the store (no
\* rollback) and the assignment goes on to report a partial-count result to
\* its caller instead of failing the whole operation
C28_FailedCreateGivesPartialResult ==
    [][\A p \in Procs :
          AssignmentCreateFails(p) =>
              /\ \A w \in AssignedSoFar(p) : MatchingIds(store', sess[p].user, w) # {}
              /\ sess'[p].err = ""]_vars

\* an assignment failed at its second word
C28_SecondCreateFailed ==
    \E p \in Procs : AssignmentCreateFails(p) /\ AssignedSoFar(p) # {}

\* session p commits, in this step, every attribute its review changed
CommitsWholeReview(p, i) ==
    /\ sess[p].pc = "review_commit" /\ sess[p].id = i
    /\ sess[p].obj = RecordReview(sess[p].loaded, sess[p].is_correct,
                                  sess[p].response_time, sess[p].difficulty, sess[p].at)
    /\ \A f \in Fields :
          store'[i][f] = IF sess[p].obj[f] # sess[p].loaded[f] THEN sess[p].obj[f]
                                                              ELSE store[i][f]
    /\ sess[p].loaded = store[i] => store'[i] = sess[p].obj

\* C29: a review or a record creation that is cancelled or fails before its
\* commit leaves the stored record exactly as it was: the store never holds a
\* partially applied review; a step either leaves a record alone or writes a
\* whole review or a whole new record
C29_WritesAreAtomic ==
    [][/\ \A i \in DOMAIN store :
            /\ i \in DOMAIN store'
            /\ store'[i] = store[i] \/ \E p \in Procs : CommitsWholeReview(p, i)
       /\ \A i \in DOMAIN store' \ DOMAIN store :
            store'[i] = NewProgress(i, store'[i].user_id, store'[i].word_id, now)
       /\ (last'.err # "" /\ last' # last) => store' = store]_vars

\* a review of an already reviewed record was cancelled after it had been
\* applied to the loaded object: the stored record is the one loaded
C29_Witness ==
    /\ last.op = "record_review" /\ last.err = "CancelledError"
    /\ last.id # NoId
    /\ store[last.id] = last.pre
    /\ store[last.id].total_reviews > 0

\* the sum of f over the finite set S
RECURSIVE SumOver(_, _)
SumOver(S, f) ==
    IF S = {} THEN 0
    ELSE LET x == CHOOSE y \in S : TRUE IN f[x] + SumOver(S \ {x}, f)

\* the ids of the records of user u
RecordsOf(u) == {i \in DOMAIN store : store[i].user_id = u}

\* C30: the statistics report of a user is a read-only projection: it changes
\* no record, the counts in status_breakdown sum to total_words,
\* overall_accuracy is (sum of correct_reviews) / (sum of total_reviews) over the
\* user's records, or 0 without reviews, and words_due_for_review is the number
\* of the user's records with next_review_at <= now
C30_StatisticsProjection ==
    [][\A p \in Procs :
          sess[p].op = "statistics" =>
              /\ store' = store /\ words' = words
              /\ sess'[p].pc = "idle" =>
                    LET stats == last'.stats
                        total == SumOver(RecordsOf(sess[p].user),
                                         [i \in DOMAIN store |-> store[i].total_reviews])
                        correct == SumOver(RecordsOf(sess[p].user),
                                           [i \in DOMAIN store |-> store[i].correct_reviews])
                    IN  /\ stats.total_words = Cardinality(RecordsOf(sess[p].user))
                        /\ SumOver(DOMAIN stats.status_breakdown, stats.status_breakdown)
                              = stats.total_words
                        /\ total > 0 => /\ stats.overall_accuracy.num * total
                                             = correct * stats.overall_accuracy.den
                                        /\ stats.overall_accuracy.den > 0
                        /\ total = 0 => stats.overall_accuracy.num = 0
                        /\ stats.words_due_for_review
                              = Cardinality({i \in RecordsOf(sess[p].user) :
                                                store[i].next_review_at <= now})]_vars

\* statistics of a user with two records in different statuses, one of them
\* due and one not, reviewed with mixed results, next to another user's record
C30_Witness ==
    /\ last.op = "statistics" /\ last.stats # NoStatistics
    /\ last.stats.total_words = 2
    /\ Cardinality(DOMAIN last.stats.status_breakdown) = 2
    /\ last.stats.words_due_for_review = 1
    /\ last.stats.total_correct > 0 /\ last.stats.total_correct < last.stats.total_reviews
    /\ \E i \in DOMAIN store : store[i].user_id # last.user

\* C31: a record with status new has srs_level 0, srs_interval 1, ease_factor
\* 2.5 and both streaks 0; so no single review takes a record from new directly
\* to mastered or to failed
C31_NewHasDefaults ==
    /\ \A i \in DOMAIN store :
          store[i].status = "new" =>
              /\ store[i].srs_level = 0 /\ store[i].srs_interval = 1
              /\ store[i].ease_factor = DefaultEase
              /\ store[i].consecutive_correct = 0 /\ store[i].consecutive_incorrect = 0
    /\ (LastReview /\ last.pre.status = "new") => Post.status = "learning"

\* a record that was reset after five correct reviews (accuracy 1.0) was
\* reviewed correctly once more
C31_Witness ==
    /\ LastReview /\ last.pre.status = "new" /\ last.is_correct
    /\ last.pre.total_reviews >= MasteryLevel
    /\ last.pre.correct_reviews = last.pre.total_reviews
    /\ Post.status = "learning"

\* the changes of status a review may make
StatusEdges ==
    { <<"new", "learning">>, <<"learning", "mastered">>, <<"learning", "failed">>,
      <<"mastered", "review">>, <<"review", "mastered">>, <<"review", "failed">>,
      <<"failed", "mastered">> }

\* C32: record_review changes status only along the edges new-learning,
\* learning-mastered, learning-failed, mastered-review, review-mastered,
\* review-failed and failed-mastered: a failed record stays failed until it is
\* mastered, no review leads back to learning or new, and review is entered
\* only from mastered
C32_StatusEdges ==
    LastReview =>
        \/ Post.status = last.pre.status
        \/ <<last.pre.status, Post.status>> \in StatusEdges

\* a record that had been mastered and demoted to review was mastered again
C32_Witness ==
    LastReview /\ last.pre.status = "review" /\ Post.status = "mastered"

\* C33: after any review and reset calls the counters are consistent:
\* 0 <= correct_reviews <= total_reviews, at most one of the two streaks is
\* non-zero, consecutive_correct <= correct_reviews and consecutive_incorrect
\* <= total_reviews - correct_reviews
C33_CountersConsistent ==
    \A i \in DOMAIN store :
        /\ 0 <= store[i].correct_reviews
        /\ store[i].correct_reviews <= store[i].total_reviews
        /\ store[i].consecutive_correct = 0 \/ store[i].consecutive_incorrect = 0
        /\ store[i].consecutive_correct >= 0 /\ store[i].consecutive_incorrect >= 0
        /\ store[i].consecutive_correct <= store[i].correct_reviews
        /\ store[i].consecutive_incorrect <= store[i].total_reviews - store[i].correct_reviews

\* a record with both kinds of answers behind it was reset and answered again
C33_Witness ==
    /\ LastReview /\ last.pre.status = "new"
    /\ last.pre.correct_reviews > 0
    /\ last.pre.correct_reviews < last.pre.total_reviews
    /\ Post.consecutive_correct + Post.consecutive_incorrect = 1

\* C34: srs_level never exceeds the number of correct reviews since the record
\* was created or last reset (a new or reset record has level 0 and a step
\* raises the level by no more than it adds correct reviews), so a record
\* becomes mastered only with 5 correct reviews since then; a fresh record
\* answered correctly every time (its level equals its number of reviews) is
\* mastered at its 5th review and at no earlier one
C34_LevelBoundedByCorrectReviews ==
    [][\A i \in DOMAIN store' :
          /\ store'[i].status = "new" => store'[i].srs_level = 0
          /\ i \in DOMAIN store =>
                /\ store'[i].srs_level - store[i].srs_level
                      <= store'[i].correct_reviews - store[i].correct_reviews
                /\ (store'[i].status = "mastered" /\ store[i].status # "mastered") =>
                      store'[i].srs_level >= MasteryLevel
          /\ (/\ store'[i].srs_level = store'[i].total_reviews
              /\ store'[i].correct_reviews = store'[i].total_reviews) =>
                (store'[i].status = "mastered" <=> store'[i].total_reviews >= MasteryLevel)]_vars

\* a record reset after correct reviews was mastered by five more of them
C34_Witness ==
    /\ LastReview /\ last.pre.status = "learning" /\ Post.status = "mastered"
    /\ Post.srs_level = MasteryLevel
    /\ Post.correct_reviews > MasteryLevel
    /\ Post.total_reviews = Post.correct_reviews

\* C35: from any reachable record state, if every subsequent review is correct
\* the record eventually reaches status mastered: no record stays in learning,
\* review or failed forever under an unbroken run of correct reviews
C35_CorrectRunLeadsToMastered ==
    (store # <<>>) ~> (\E i \in DOMAIN store : store[i].status = "mastered")

\* C36: immediately after a review the record is not due: next_review_at is at
\* least 4 hours after last_reviewed_at, is_due is false and a session planned
\* at that instant does not list the record as a review; it is due, and
\* listed, again only once the clock has reached next_review_at
C36_NotDueAfterReview ==
    (LastReview /\ last.err = "") =>
        LET listed == Range(GetDailyLearningWords(store, words, last.user, MaxQuota,
                                                  now, LlmFailure).review_words)
        IN  /\ Post.next_review_at >= Post.last_reviewed_at + FailedReviewHours
            /\ now = Post.last_reviewed_at =>
                  ~IsDueForReview(Post, now) /\ last.id \notin listed
            /\ IsDueForReview(Post, now) <=> now >= Post.next_review_at
            /\ last.id \in listed <=> now >= Post.next_review_at

\* a failed record, four hours after its review: due again
C36_Witness ==
    /\ LastReview /\ last.err = ""
    /\ Post.status = "failed"
    /\ now = Post.last_reviewed_at + FailedReviewHours
    /\ IsDueForReview(Post, now)

\* C37: a record created for a new word is due at once, so plans repeated with
\* no review in between and the clock fixed create at most max(0, quota - d0)
\* records in total, d0 being the number of due records at the first call (each
\* call leaves at most max(quota, due before it) due records); once the due
\* records reach the quota a call requests no new words and creates no record
C37_RepeatedPlansBounded ==
    LastPlan =>
        LET due_before == Len(last.reviews)
            due_after == Len(GetWordsDueForReview(store, last.user, now))
            created == Len(store) - last.rows_before
        IN  /\ \A i \in RecordsOf(last.user) : IsDueForReview(store[i], now)
            /\ due_after = due_before + created
            /\ created <= Max(0, last.quota - due_before)
            /\ due_after <= Max(last.quota, due_before)
            /\ due_before >= last.quota =>
                  /\ last.requested = 0 /\ ~last.supplied
                  /\ created = 0 /\ last.result.new_words = <<>>

\* a plan found the quota reached by the records of earlier plans and of a
\* direct assignment, and created nothing
C37_Witness ==
    /\ LastPlan /\ last.quota = MaxQuota
    /\ Len(last.reviews) = last.quota
    /\ Len(store) = last.rows_before
    /\ \E i \in RecordsOf(last.user) : store[i].word_id \notin Words

\* the job's step that delivers a non-empty session to user u
JobDelivers(u) ==
    /\ job.pc = "plan" /\ job' # job /\ job.user = u
    /\ last.op = "plan" /\ last.err = "" /\ last.result.total_count > 0

\* C38: the daily-vocabulary job plans a session for a user only if the user
\* was never sent words or the last send is more than 20 hours old; it sets
\* last_daily_words_sent = now exactly in the steps that deliver a non-empty
\* session; so a delivery comes more than 20 hours after the one before it
C38_DeliveriesTwentyHoursApart ==
    [][\A u \in JobUsers :
          LET sent == users[u].last_daily_words_sent
          IN  /\ (job'.pc = "plan" /\ job.pc # "plan" /\ job'.user = u)
                    => (sent = NoTime \/ now - sent > DailySendHours)
              /\ JobDelivers(u) <=> users'[u] # users[u]
              /\ JobDelivers(u) =>
                    /\ users'[u] = [users[u] EXCEPT !.last_daily_words_sent = now]
                    /\ sent = NoTime \/ now - sent > DailySendHours]_vars

\* a second delivery to a user, 24 hours after the first, while the other
\* user was never sent anything
C38_Witness ==
    /\ last.op = "send_daily_vocabulary" /\ last.err = ""
    /\ last.result.total_count > 0
    /\ last.last_daily_words_sent # NoTime
    /\ users[last.user].last_daily_words_sent = last.at
    /\ last.at - last.last_daily_words_sent = DailySendHours + FailedReviewHours
    /\ \E u \in JobUsers : users[u].last_daily_words_sent = NoTime

LastGenerate == last.op = "generate_vocabulary_set"

\* the first n attempts all failed
AllFailed(outcomes, n) == \A i \in 1..n : ~outcomes[i].ok

\* C39: the provider is called at most max_retries times; the first attempt
\* that succeeds ends the loop and its response is what is returned; an attempt
\* that fails and is not the last is followed by another one; when all
\* max_retries attempts have failed the failure of the last one is raised; and
\* the loop always comes to an end
C39_RetryLoopBounded ==
    /\ [](\A p \in Procs :
            /\ sess[p].pc \in {"llm_attempt", "llm_backoff"} =>
                  /\ Len(sess[p].outcomes) < sess[p].max_retries
                  /\ Len(sess[p].outcomes) =
                        sess[p].attempt + (IF sess[p].pc = "llm_backoff" THEN 1 ELSE 0)
                  /\ AllFailed(sess[p].outcomes, Len(sess[p].outcomes))
            /\ sess[p].pc # "llm_return")
    /\ [](LastGenerate =>
            LET n == Len(last.outcomes)
            IN  /\ n \in 1..last.max_retries
                /\ AllFailed(last.outcomes, n - 1)
                /\ last.outcomes[n].ok =>
                      last.response = last.outcomes[n].response /\ last.raised = ""
                /\ ~last.outcomes[n].ok =>
                      n = last.max_retries /\ last.raised = last.outcomes[n].raised)
    /\ \A p \in Procs :
          /\ (sess[p].pc = "llm_backoff") ~> (sess[p].pc = "llm_attempt")
          /\ (sess[p].pc \in {"llm_attempt", "llm_backoff"}) ~> (sess[p].pc = "idle")

\* all MaxRetries attempts failed, in two different ways, and the last failure
\* was raised
C39_Witness ==
    /\ LastGenerate /\ last.max_retries = MaxRetries
    /\ Len(last.outcomes) = MaxRetries
    /\ AllFailed(last.outcomes, MaxRetries)
    /\ last.outcomes[1].raised # last.outcomes[MaxRetries].raised
    /\ last.raised = last.outcomes[MaxRetries].raised

\* C40: with the mock provider generate_vocabulary_set(word_count = n) returns
\* exactly n entries; each has llm_provider = "mock", the difficulty level that
\* is the difficulty reference without its "Oxford3000_" prefix, and at least
\* one example
C40_MockReturnsRequestedCount ==
    (LastGenerate /\ last.provider = "mock") =>
        /\ last.err = ""
        /\ Len(last.vocabulary) = last.word_count
        /\ \A k \in DOMAIN last.vocabulary :
              /\ last.vocabulary[k].llm_provider = "mock"
              /\ <<"Oxford3000_">> \o last.vocabulary[k].difficulty_level
                    = last.difficulty_reference
                 \/ /\ last.vocabulary[k].difficulty_level = last.difficulty_reference
                    /\ Head(last.difficulty_reference) # "Oxford3000_"
              /\ Len(last.vocabulary[k].examples) >= 1

\* MaxWordCount words from the mock for a reference with the prefix: the words
\* after the second are the first ones again under a numbered name
C40_Witness ==
    /\ LastGenerate /\ last.provider = "mock"
    /\ last.word_count = MaxWordCount
    /\ Len(last.vocabulary) = MaxWordCount
    /\ last.difficulty_reference = <<"Oxford3000_", DefaultLevel>>
    /\ last.vocabulary[MaxWordCount].english_word # last.vocabulary[1].english_word
    /\ last.vocabulary[MaxWordCount].examples = last.vocabulary[1].examples

====
